---- MODULE Spec2Model ----
(***************************************************************************)
(* A model of the tableaux core (github.com/tableaux-project/tableaux):    *)
(* the path grammar, the schema resolver, the filter compiler and the SQL  *)
(* connector.  Strings are modelled as sequences of one-character strings, *)
(* so that splitting, prefixing, case conversion and byte-wise sorting are *)
(* computed as the Go code computes them.                                  *)
(***************************************************************************)
EXTENDS Integers, Sequences, FiniteSets, TLC

VARIABLES
    descriptor,     \* util: the argument of DescriptorToIdentifier
    identifier,     \* util: DescriptorToIdentifier(descriptor)
    roundTrip,      \* util: IdentifierToDescriptor(identifier)
    pathPc,         \* util: "start" | "converted" | "done"
    filterColumn,   \* FilterColumn: the schema column that is filtered on
    filterGroups,   \* FilterColumn: the filter groups on that column's path
    whereResult,    \* FilterColumn: its result, [err, items]
    filterPc,       \* FilterColumn: "start" | "done"
    schemas,        \* SchemaMapper.schemas: table name -> TableSchema
    resolvedSchemas,\* mapSchemasToResolvedSchemas: the map built so far
    mapperErr,      \* mapSchemasToResolvedSchemas: "" or the missing table
    integrity,      \* NewConnector: the EnumMapper and what ValidateIntegrity returned
    request,        \* Connector: [columns, filters, orders, limit, locale]
    dbCaches,       \* Connector: the key caches read from the database
    joinPathCache,  \* CommonJoinResolver.joinPathCache: alias -> Join
    validateErr,    \* the error of the last ValidateRequest, "" for nil
    lastQuery,      \* the outcome of the last fetchData
    connPc,         \* Connector: "idle" | "ready" | "fetched"
    languages,      \* Translator.languages: language -> LanguageCatalog
    sortRequest,    \* the key, enum column, sorter, direction and locale asked for
    translation,    \* what LanguageCatalog.Translate returned last
    resolvedOrder,  \* what the sorter's OrderColumn returned last
    i18nPc,         \* Translator: "idle" | "ready" | "translated" | "ordered"
    orderCall,      \* OrderColumn: the path, the column and the order it is called with
    orderText,      \* OrderColumn: what the call gave
    fetchCall,      \* FetchData: its arguments, the caches and the answers of the database
    resolverCache,  \* FetchData: joinPathCache of the connector's join resolver
    taskPc,         \* FetchData: where the call and its two count goroutines are
    resolving,      \* FetchData: the tasks that are resolving joins over the cache
    scannedKeys,    \* FetchData: the keys scanned from the primary-key query
    countChannels,  \* FetchData: what totalCountChannel and filterCountChannel hold
    dataFetch,      \* FetchData: the arguments of the full-columns fetchData
    fetched,        \* FetchData: what the call returned
    keyFetch,       \* FetchData: the primary-key query of deferred loading
    joinCall,       \* resolveJoinString: the planned join paths and the foreign keys
    aliasCache,     \* resolveJoinString: joinPathCache of the join resolver
    emitted,        \* resolveJoinString: the joins ResolvePath has returned
    joinPc          \* resolveJoinString: the index of the next path, or how the loop ended

pathVars == <<descriptor, identifier, roundTrip, pathPc>>

filterVars == <<filterColumn, filterGroups, whereResult, filterPc>>

schemaVars == <<schemas, resolvedSchemas, mapperErr, integrity>>

connVars == <<request, dbCaches, joinPathCache, validateErr, lastQuery, connPc>>

i18nVars == <<languages, sortRequest, translation, resolvedOrder, i18nPc>>

orderVars == <<orderCall, orderText>>

fetchVars ==
    <<fetchCall, resolverCache, taskPc, resolving, scannedKeys, countChannels, dataFetch,
      fetched, keyFetch>>

joinVars == <<joinCall, aliasCache, emitted, joinPc>>

vars ==
    <<pathVars, filterVars, schemaVars, connVars, i18nVars, orderVars, fetchVars, joinVars>>

nonPathVars ==
    <<filterVars, schemaVars, connVars, i18nVars, orderVars, fetchVars, joinVars>>

nonFilterVars ==
    <<pathVars, schemaVars, connVars, i18nVars, orderVars, fetchVars, joinVars>>

nonSchemaVars ==
    <<pathVars, filterVars, connVars, i18nVars, orderVars, fetchVars, joinVars>>

nonConnVars ==
    <<pathVars, filterVars, schemaVars, i18nVars, orderVars, fetchVars, joinVars>>

nonI18nVars ==
    <<pathVars, filterVars, schemaVars, connVars, orderVars, fetchVars, joinVars>>

nonOrderVars ==
    <<pathVars, filterVars, schemaVars, connVars, i18nVars, fetchVars, joinVars>>

nonFetchVars ==
    <<pathVars, filterVars, schemaVars, connVars, i18nVars, orderVars, joinVars>>

nonJoinVars ==
    <<pathVars, filterVars, schemaVars, connVars, i18nVars, orderVars, fetchVars>>

(***************************************************************************)
(* Characters and strings                                                  *)
(***************************************************************************)

LowerLetters ==
    <<"a", "b", "c", "d", "e", "f", "g", "h", "i", "j", "k", "l", "m",
      "n", "o", "p", "q", "r", "s", "t", "u", "v", "w", "x", "y", "z">>

UpperLetters ==
    <<"A", "B", "C", "D", "E", "F", "G", "H", "I", "J", "K", "L", "M",
      "N", "O", "P", "Q", "R", "S", "T", "U", "V", "W", "X", "Y", "Z">>

IsUpper(c) == \E i \in DOMAIN UpperLetters : UpperLetters[i] = c

IsLower(c) == \E i \in DOMAIN LowerLetters : LowerLetters[i] = c

IsLetter(c) == IsUpper(c) \/ IsLower(c)

\* strings.ToLower / strings.ToUpper on one ASCII character
ToLowerChar(c) ==
    IF IsUpper(c)
    THEN LowerLetters[CHOOSE i \in DOMAIN UpperLetters : UpperLetters[i] = c]
    ELSE c

ToUpperChar(c) ==
    IF IsLower(c)
    THEN UpperLetters[CHOOSE i \in DOMAIN LowerLetters : LowerLetters[i] = c]
    ELSE c

ToLower(s) == [i \in DOMAIN s |-> ToLowerChar(s[i])]

\* The characters the model uses, in ASCII (byte) order: sort.Strings and
\* strings.Compare order strings byte by byte.
AsciiOrder ==
    <<"%", "'", "*", ".", "0", "1", "2", "3", "4", "5", "6", "7", "8", "9", "?">>
    \o UpperLetters \o <<"_">> \o LowerLetters

Ord(c) == CHOOSE i \in DOMAIN AsciiOrder : AsciiOrder[i] = c

RECURSIVE StrLessFrom(_, _, _)
StrLessFrom(a, b, i) ==
    IF i > Len(b) THEN FALSE
    ELSE IF i > Len(a) THEN TRUE
    ELSE IF a[i] # b[i] THEN Ord(a[i]) < Ord(b[i])
    ELSE StrLessFrom(a, b, i + 1)

\* a < b on Go strings
StrLess(a, b) == StrLessFrom(a, b, 1)

\* strings.HasPrefix(s, p)
HasPrefix(s, p) == Len(p) <= Len(s) /\ SubSeq(s, 1, Len(p)) = p

\* strings.Index(s, "_") + 1: the position after the first "_", 0-based;
\* it is 0 when s holds no "_" (Index returns -1).
IndexUnderscorePlusOne(s) ==
    IF \E i \in DOMAIN s : s[i] = "_"
    THEN CHOOSE i \in DOMAIN s : s[i] = "_" /\ \A j \in 1..(i - 1) : s[j] # "_"
    ELSE 0

RECURSIVE SplitFrom(_, _, _, _)
SplitFrom(s, sep, i, cur) ==
    IF i > Len(s) THEN <<cur>>
    ELSE IF s[i] = sep THEN <<cur>> \o SplitFrom(s, sep, i + 1, <<>>)
    ELSE SplitFrom(s, sep, i + 1, Append(cur, s[i]))

\* strings.Split(s, "_"): always at least one part
Split(s) == SplitFrom(s, "_", 1, <<>>)

RECURSIVE JoinWith(_, _)
\* strings.Join(parts, sep), sep a string
JoinWith(parts, sep) ==
    IF Len(parts) = 0 THEN <<>>
    ELSE IF Len(parts) = 1 THEN parts[1]
    ELSE parts[1] \o sep \o JoinWith(Tail(parts), sep)

\* strings.Join(parts, "_")
Join(parts) == JoinWith(parts, <<"_">>)

(***************************************************************************)
(* util.DescriptorToIdentifier / util.IdentifierToDescriptor               *)
(***************************************************************************)

RECURSIVE ReplaceUpperPairs(_, _)
\* regexp "([A-Z].+?)" with ReplaceAllString(descriptor, "_${1}"): a match is
\* an upper-case letter and the ONE character after it (the lazy ".+?" takes
\* exactly one); matches are leftmost and do not overlap, and an upper-case
\* letter that ends the string matches nothing.
ReplaceUpperPairs(s, i) ==
    IF i > Len(s) THEN <<>>
    ELSE IF IsUpper(s[i]) /\ i < Len(s)
         THEN <<"_", s[i], s[i + 1]>> \o ReplaceUpperPairs(s, i + 2)
         ELSE <<s[i]>> \o ReplaceUpperPairs(s, i + 1)

DescriptorToIdentifier_NoUnderscore(d) == ToLower(d)

DescriptorToIdentifier(d) == ToLower(ReplaceUpperPairs(d, 1))

RECURSIVE ReplaceUnderscoreLower(_, _)
\* regexp "(_[a-z])" with ReplaceAllStringFunc: "_x" becomes "X"
ReplaceUnderscoreLower(s, i) ==
    IF i > Len(s) THEN <<>>
    ELSE IF s[i] = "_" /\ i < Len(s) /\ IsLower(s[i + 1])
         THEN <<ToUpperChar(s[i + 1])>> \o ReplaceUnderscoreLower(s, i + 2)
         ELSE <<s[i]>> \o ReplaceUnderscoreLower(s, i + 1)

IdentifierToDescriptor(database) == ReplaceUnderscoreLower(database, 1)

(***************************************************************************)
(* Words of the repository's tests and documentation                       *)
(***************************************************************************)

US == <<"_">>

W_person == <<"p", "e", "r", "s", "o", "n">>
W_Key == <<"K", "e", "y">>
W_key == <<"k", "e", "y">>
W_organizational == <<"o", "r", "g", "a", "n", "i", "z", "a", "t", "i", "o", "n", "a", "l">>
W_Unit == <<"U", "n", "i", "t">>
W_unit == <<"u", "n", "i", "t">>

\* src/datasource/sqlsource/joinresolver.go:221-222, 238 (the util tests)
Str_person_personKey == W_person \o US \o W_person \o W_Key
Str_person_person_key == W_person \o US \o W_person \o US \o W_key
Str_person_organizationalUnit_personKey ==
    W_person \o US \o W_organizational \o W_Unit \o US \o W_person \o W_Key
Str_person_organizational_unit_person_key ==
    W_person \o US \o W_organizational \o US \o W_unit \o US \o W_person \o US \o W_key
Str_person_key == W_person \o US \o W_key
Str_personKey == W_person \o W_Key

(***************************************************************************)
(* Specification SpecPath: the two conversions applied to bounded inputs   *)
(***************************************************************************)

MaxDescriptorLen == 5

PathAlphabet == {"a", "K", "U", "_"}

RECURSIVE StringsUpTo(_, _)
StringsUpTo(alphabet, n) ==
    IF n = 0 THEN {<<>>}
    ELSE LET shorter == StringsUpTo(alphabet, n - 1)
         IN  shorter \cup {Append(s, c) : s \in shorter, c \in alphabet}

DescriptorInputs ==
    StringsUpTo(PathAlphabet, MaxDescriptorLen)
        \cup {Str_person_personKey, Str_person_organizationalUnit_personKey,
              Str_person_key, Str_personKey}

PathInit ==
    /\ descriptor \in DescriptorInputs
    /\ identifier = <<>>
    /\ roundTrip = <<>>
    /\ pathPc = "start"

\* the conversions are not in use
PathIdle ==
    /\ descriptor = <<>>
    /\ identifier = <<>>
    /\ roundTrip = <<>>
    /\ pathPc = "idle"

Convert ==
    /\ pathPc = "start"
    /\ identifier' = DescriptorToIdentifier(descriptor)
    /\ pathPc' = "converted"
    /\ UNCHANGED <<descriptor, roundTrip, nonPathVars>>

ConvertBack ==
    /\ pathPc = "converted"
    /\ roundTrip' = IdentifierToDescriptor(identifier)
    /\ pathPc' = "done"
    /\ UNCHANGED <<descriptor, identifier, nonPathVars>>

PathNext == Convert \/ ConvertBack

(***************************************************************************)
(* Filter strategies (package filter)                                      *)
(***************************************************************************)

\* tableaux.FilterMode
FilterEquals == "EQUALS"
FilterGreater == "GREATER"
FilterGreaterEquals == "GREATER_EQUALS"
FilterLesser == "LESSER"
FilterLesserEquals == "LESSER_EQUALS"
FilterNotEquals == "NOT_EQUALS"

\* filter.Operator: the text that is written between path and literal
OperatorLike == <<"L", "I", "K", "E">>
OperatorNotLike == <<"N", "O", "T", " ", "L", "I", "K", "E">>
OperatorEqual == <<"=">>
OperatorNotEqual == <<"!", "=">>
OperatorGreater == <<"G", "R", "E", "A", "T", "E", "R">>
OperatorGreaterEquals ==
    <<"G", "R", "E", "A", "T", "E", "R", "_", "E", "Q", "U", "A", "L", "S">>
OperatorLesser == <<"L", "E", "S", "S", "E", "R">>
OperatorLesserEquals ==
    <<"L", "E", "S", "S", "E", "R", "_", "E", "Q", "U", "A", "L", "S">>

\* A filter value (interface{}): an int64 or a string
IntValue(n) == [t |-> "int64", n |-> n, s |-> <<>>]
StringValue(s) == [t |-> "string", n |-> 0, s |-> s]

\* (Operator, error)
OperatorOk(op) == [err |-> "", op |-> op]
OperatorErr(msg) == [err |-> msg, op |-> <<>>]

Common_Operator_EqualsSwapped(filterMode) ==
    CASE filterMode = FilterEquals -> OperatorOk(OperatorNotEqual)
      [] filterMode = FilterGreater -> OperatorOk(OperatorGreater)
      [] filterMode = FilterGreaterEquals -> OperatorOk(OperatorGreaterEquals)
      [] filterMode = FilterLesser -> OperatorOk(OperatorLesser)
      [] filterMode = FilterLesserEquals -> OperatorOk(OperatorLesserEquals)
      [] filterMode = FilterNotEquals -> OperatorOk(OperatorEqual)
      [] OTHER -> OperatorErr("unknown filter mode")

\* Common.Operator
Common_Operator(filterMode) ==
    CASE filterMode = FilterEquals -> OperatorOk(OperatorEqual)
      [] filterMode = FilterGreater -> OperatorOk(OperatorGreater)
      [] filterMode = FilterGreaterEquals -> OperatorOk(OperatorGreaterEquals)
      [] filterMode = FilterLesser -> OperatorOk(OperatorLesser)
      [] filterMode = FilterLesserEquals -> OperatorOk(OperatorLesserEquals)
      [] filterMode = FilterNotEquals -> OperatorOk(OperatorNotEqual)
      [] OTHER -> OperatorErr("unknown filter mode")

\* strings.Contains(s, ".*")
ContainsDotStar(s) ==
    \E i \in 1..(Len(s) - 1) : s[i] = "." /\ s[i + 1] = "*"

\* RegexString.Operator
RegexString_Operator(value, filterMode) ==
    IF value.t # "string" THEN OperatorErr("cannot cast to string")
    ELSE IF ContainsDotStar(value.s)
         THEN CASE filterMode = FilterEquals -> OperatorOk(OperatorLike)
                [] filterMode = FilterNotEquals -> OperatorOk(OperatorNotLike)
                [] OTHER -> Common_Operator(filterMode)
         ELSE Common_Operator(filterMode)

Digits == <<"0", "1", "2", "3", "4", "5", "6", "7", "8", "9">>

RECURSIVE FormatNat(_)
FormatNat(n) ==
    IF n < 10 THEN <<Digits[n + 1]>>
    ELSE FormatNat(n \div 10) \o <<Digits[(n % 10) + 1]>>

\* strconv.FormatInt(n, 10)
FormatInt(n) == IF n < 0 THEN <<"-">> \o FormatNat(0 - n) ELSE FormatNat(n)

IsDigit(c) == \E i \in DOMAIN Digits : Digits[i] = c

DigitValue(c) == (CHOOSE i \in DOMAIN Digits : Digits[i] = c) - 1

RECURSIVE ParseNat(_, _)
ParseNat(s, acc) ==
    IF Len(s) = 0 THEN acc ELSE ParseNat(Tail(s), 10 * acc + DigitValue(Head(s)))

\* strconv.ParseInt(s, 10, 64) with the error dropped: 0 on a syntax error
\* (values beyond int64 are outside the model's range)
ParseIntOrZero(s) ==
    LET body == IF Len(s) > 0 /\ (Head(s) = "-" \/ Head(s) = "+") THEN Tail(s) ELSE s
    IN  IF Len(body) = 0 \/ \E i \in DOMAIN body : ~IsDigit(body[i]) THEN 0
        ELSE IF Len(s) > 0 /\ Head(s) = "-" THEN 0 - ParseNat(body, 0)
        ELSE ParseNat(body, 0)

\* fmt.Sprintf(`'%s'`, s)
Quote(s) == <<"'">> \o s \o <<"'">>

RECURSIVE ReplaceDotStar(_, _)
\* strings.Replace(s, ".*", "%", -1)
ReplaceDotStar(s, i) ==
    IF i > Len(s) THEN <<>>
    ELSE IF i < Len(s) /\ s[i] = "." /\ s[i + 1] = "*"
         THEN <<"%">> \o ReplaceDotStar(s, i + 2)
         ELSE <<s[i]>> \o ReplaceDotStar(s, i + 1)

\* The registered filters, by the strategy key of the schema column
\* (NewConnector); a key that is not registered has no implementation.
FilterImplementation(key) ==
    CASE key = "BooleanFilter" -> "Boolean"
      [] key = "StringFilter" -> "PlainString"
      [] key = "StringRegExFilter" -> "RegexString"
      [] key = "EnumFilter" -> "PlainString"
      [] key = "NumericFilter" -> "Numeric"
      [] key = "DateFilter" -> "PlainString"
      [] key = "DateTimeFilter" -> "PlainString"
      [] OTHER -> "nil"

\* Filter.Operator of the implementation
FilterOperator(impl, value, filterMode) ==
    IF impl = "RegexString" THEN RegexString_Operator(value, filterMode)
    ELSE Common_Operator(filterMode)

\* Filter.ParseValue panics on a value it cannot cast
ParseValuePanics(impl, value) ==
    CASE impl = "Numeric" -> value.t \notin {"int64", "uint64", "string"}
      [] impl = "Boolean" -> value.t \notin {"bool", "string"}
      [] OTHER -> value.t # "string"

\* Filter.ParseValue of the implementation: the SQL literal of a value
ParseValue(impl, value) ==
    CASE impl = "Numeric" ->
            IF value.t = "string" THEN FormatInt(ParseIntOrZero(value.s))
            ELSE FormatInt(value.n)
      [] impl = "RegexString" -> Quote(ReplaceDotStar(value.s, 1))
      [] impl = "Boolean" ->
            IF value.t = "string"
            THEN IF value.s = <<"1">> \/ ToLower(value.s) = <<"t", "r", "u", "e">>
                 THEN <<"t", "r", "u", "e">> ELSE <<"f", "a", "l", "s", "e">>
            ELSE IF value.n = 1
                 THEN <<"t", "r", "u", "e">> ELSE <<"f", "a", "l", "s", "e">>
      [] OTHER -> Quote(value.s)

(***************************************************************************)
(* path.SimpleResolver / path.SizeResolver                                 *)
(***************************************************************************)

\* SimpleResolver.ResolvePathName
SimpleResolver_ResolvePathName(columnSchema) ==
    LET pathParts == Split(columnSchema.Path)
    IN  IF Len(pathParts) > 1
        THEN DescriptorToIdentifier(
                 Join(SubSeq(pathParts, 1, Len(pathParts) - 1))
                     \o <<".">> \o pathParts[Len(pathParts)])
        ELSE pathParts[1]

\* SizeResolver.ResolvePathName
SizeResolver_ResolvePathName(columnSchema) ==
    DescriptorToIdentifier(
        columnSchema.Path \o <<".", "c", "o", "u", "n", "t", "_",
                               "r", "e", "s", "u", "l", "t">>)

\* th.resolvers[key].ResolvePathName(column), for a registered key
ResolvePathName(key, columnSchema) ==
    IF key = "SizePathResolver" THEN SizeResolver_ResolvePathName(columnSchema)
    ELSE SimpleResolver_ResolvePathName(columnSchema)

(***************************************************************************)
(* CommonQueryBuilder: filter strings.  A predicate is kept as the flat    *)
(* sequence of its comparisons and the connectives written between them    *)
(* (the code writes no parentheses); RenderItems gives its characters.     *)
(***************************************************************************)

\* "path op literal"
Comparison(path, op, literal) ==
    [kind |-> "cmp", path |-> path, op |-> op, lits |-> <<literal>>]

\* "path IN (l1,l2)" / "path NOT IN (l1,l2)"
ListTest(kind, path, literals) ==
    [kind |-> kind, path |-> path, op |-> <<>>, lits |-> literals]

Connective(word) == [kind |-> word, path |-> <<>>, op |-> <<>>, lits |-> <<>>]

RECURSIVE JoinItems(_, _)
\* strings.Join of predicates with " OR " / " AND " between them
JoinItems(predicates, word) ==
    IF Len(predicates) = 0 THEN <<>>
    ELSE IF Len(predicates) = 1 THEN predicates[1]
    ELSE predicates[1] \o <<Connective(word)>> \o JoinItems(Tail(predicates), word)

SP == <<" ">>

RenderItem(item) ==
    CASE item.kind = "cmp" -> item.path \o SP \o item.op \o SP \o item.lits[1]
      [] item.kind = "in" ->
            item.path \o <<" ", "I", "N", " ", "(">>
                \o JoinWith(item.lits, <<",">>) \o <<")">>
      [] item.kind = "notin" ->
            item.path \o <<" ", "N", "O", "T", " ", "I", "N", " ", "(">>
                \o JoinWith(item.lits, <<",">>) \o <<")">>
      [] item.kind = "OR" -> <<" ", "O", "R", " ">>
      [] item.kind = "AND" -> <<" ", "A", "N", "D", " ">>

RECURSIVE RenderItems(_)
RenderItems(items) ==
    IF Len(items) = 0 THEN <<>>
    ELSE RenderItem(Head(items)) \o RenderItems(Tail(items))

\* (string, error)
PredicateOk(items) == [err |-> "", items |-> items]
PredicateErr(msg) == [err |-> msg, items |-> <<>>]

\* CommonQueryBuilder.FilterStringFromValue
FilterStringFromValue(path, operator, value) == <<Comparison(path, operator, value)>>

\* parseValues
ParseValues(impl, values) == [i \in DOMAIN values |-> ParseValue(impl, values[i])]

FilterStringFromValues_Reversed(path, impl, operator, values) ==
    LET parsedValues == ParseValues(impl, values)
        reversed == [i \in DOMAIN parsedValues |->
                        parsedValues[Len(parsedValues) + 1 - i]]
    IN  IF Len(values) = 1
        THEN PredicateOk(FilterStringFromValue(path, operator, parsedValues[1]))
        ELSE IF operator = OperatorEqual
        THEN PredicateOk(<<ListTest("in", path, reversed)>>)
        ELSE PredicateOk(<<ListTest("notin", path, reversed)>>)

\* CommonQueryBuilder.FilterStringFromValues
FilterStringFromValues(path, impl, operator, values) ==
    LET parsedValues == ParseValues(impl, values)
    IN  IF Len(values) = 1
        THEN PredicateOk(FilterStringFromValue(path, operator, parsedValues[1]))
        ELSE CASE operator = OperatorEqual ->
                    PredicateOk(<<ListTest("in", path, parsedValues)>>)
               [] operator = OperatorNotEqual ->
                    PredicateOk(<<ListTest("notin", path, parsedValues)>>)
               [] operator \in {OperatorGreater, OperatorGreaterEquals,
                                OperatorLesser, OperatorLesserEquals,
                                OperatorLike} ->
                    PredicateOk(JoinItems(
                        [i \in DOMAIN parsedValues |->
                            FilterStringFromValue(path, operator, parsedValues[i])],
                        "OR"))
               [] OTHER -> PredicateErr("unknown operator")

(***************************************************************************)
(* FilterColumn                                                            *)
(***************************************************************************)

\* the operators of a group's filters, in filter order
GroupOperators(impl, group) ==
    [i \in DOMAIN group |-> FilterOperator(impl, group[i].value, group[i].mode)]

\* the keys of filterModeMap
BucketKeys(impl, group) ==
    {GroupOperators(impl, group)[i].op : i \in DOMAIN group}

\* filterModeMap[operator]: the values of the group's filters with that
\* operator, in filter order
BucketValues(impl, group, operator) ==
    LET ofBucket == SelectSeq(group,
            LAMBDA f : FilterOperator(impl, f.value, f.mode).op = operator)
    IN  [i \in DOMAIN ofBucket |-> ofBucket[i].value]

\* all orders in which a Go map with these keys may be iterated
IterationOrders(S) ==
    {p \in [1..Cardinality(S) -> S] :
        \A i, j \in 1..Cardinality(S) : i # j => p[i] # p[j]}

\* one iteration order of filterModeMap for every group
BucketOrders(impl, groups) ==
    {o \in [DOMAIN groups ->
                UNION {IterationOrders(BucketKeys(impl, groups[g])) : g \in DOMAIN groups}] :
        \A g \in DOMAIN groups : o[g] \in IterationOrders(BucketKeys(impl, groups[g]))}

\* the body of FilterColumn's loop for one group: its OR-joined buckets
GroupPredicate(path, impl, group, order) ==
    LET operators == GroupOperators(impl, group)
        orFilters == [k \in DOMAIN order |->
            FilterStringFromValues(path, impl, order[k],
                                   BucketValues(impl, group, order[k]))]
    IN  IF \E i \in DOMAIN operators : operators[i].err # ""
        THEN PredicateErr(
                operators[CHOOSE i \in DOMAIN operators :
                    /\ operators[i].err # ""
                    /\ \A j \in 1..(i - 1) : operators[j].err = ""].err)
        ELSE IF \E k \in DOMAIN orFilters : orFilters[k].err # ""
        THEN PredicateErr(
                orFilters[CHOOSE k \in DOMAIN orFilters :
                    /\ orFilters[k].err # ""
                    /\ \A j \in 1..(k - 1) : orFilters[j].err = ""].err)
        ELSE PredicateOk(JoinItems([k \in DOMAIN orFilters |-> orFilters[k].items], "OR"))

\* FilterColumn; orders[g] is the order in which the map of group g is iterated
FilterColumn(path, impl, groups, orders) ==
    LET andFilters == [g \in DOMAIN groups |->
            GroupPredicate(path, impl, groups[g], orders[g])]
    IN  IF \E g \in DOMAIN andFilters : andFilters[g].err # ""
        THEN PredicateErr(
                andFilters[CHOOSE g \in DOMAIN andFilters :
                    /\ andFilters[g].err # ""
                    /\ \A j \in 1..(g - 1) : andFilters[j].err = ""].err)
        ELSE PredicateOk(JoinItems([g \in DOMAIN andFilters |-> andFilters[g].items], "AND"))

(***************************************************************************)
(* The columns of the test schema "companies"                              *)
(***************************************************************************)

W_company == <<"c", "o", "m", "p", "a", "n", "y">>
W_name == <<"n", "a", "m", "e">>

\* config.TableSchemaColumn (Title and FrontendHints carry no behaviour)
\* the column types of the schema files
T_boolean == <<"b", "o", "o", "l", "e", "a", "n">>
T_integer == <<"i", "n", "t", "e", "g", "e", "r">>
T_long == <<"l", "o", "n", "g">>
T_string == <<"s", "t", "r", "i", "n", "g">>
T_date == <<"d", "a", "t", "e">>
T_datetime == <<"d", "a", "t", "e", "t", "i", "m", "e">>
T_DateTime == <<"D", "a", "t", "e", "T", "i", "m", "e">>

Column(path, type, filter, order, pathResolver) ==
    [Path |-> path, Type |-> type, Filter |-> filter, Order |-> order,
     PathResolver |-> pathResolver]

Col_company_companyKey ==
    Column(W_company \o US \o W_company \o W_Key, T_long, "NumericFilter", "", "")

Col_company_name ==
    Column(W_company \o US \o W_name, T_string, "StringRegExFilter", "", "")

(***************************************************************************)
(* Specification SpecFilter: FilterColumn on the groups of one path        *)
(***************************************************************************)

\* the most filters a request puts on the path, over all its groups
MaxFilters == 3

RequestFilterModes == {FilterEquals, FilterNotEquals, FilterGreater}

RequestFilterValues == {IntValue(1), IntValue(2), IntValue(3)}

\* datasource.Filter
Filter(mode, value) == [mode |-> mode, value |-> value]

RequestFilters == {Filter(m, v) : m \in RequestFilterModes, v \in RequestFilterValues}

NonEmptyGroups(n) == UNION {[1..k -> RequestFilters] : k \in 1..n}

RECURSIVE GroupLists(_)
\* the lists of non-empty filter groups that hold at most n filters together
GroupLists(n) ==
    {<<>>} \cup UNION {{<<g>> \o rest : rest \in GroupLists(n - Len(g))} :
                        g \in NonEmptyGroups(n)}

FilterInit ==
    /\ filterColumn = Col_company_companyKey
    /\ filterGroups \in (GroupLists(MaxFilters) \ {<<>>})
    /\ whereResult = PredicateOk(<<>>)
    /\ filterPc = "start"

\* the filter compiler is not in use
FilterIdle ==
    /\ filterColumn = Col_company_companyKey
    /\ filterGroups = <<>>
    /\ whereResult = PredicateOk(<<>>)
    /\ filterPc = "idle"

\* The body of filterString's loop for one path: the column's filter and
\* resolver are looked up and FilterColumn compiles the groups of the path.
CompileFilterColumn ==
    /\ filterPc = "start"
    /\ LET columnFilter == FilterImplementation(filterColumn.Filter)
           resolvedPath == ResolvePathName(filterColumn.PathResolver, filterColumn)
       IN  \E orders \in BucketOrders(columnFilter, filterGroups) :
               whereResult' = FilterColumn(resolvedPath, columnFilter,
                                           filterGroups, orders)
    /\ filterPc' = "done"
    /\ UNCHANGED <<filterColumn, filterGroups, nonFilterVars>>

FilterNext == CompileFilterColumn

(***************************************************************************)
(* Specification SpecRegexFilter: FilterColumn on a column filtered by     *)
(* the RegexString filter                                                  *)
(***************************************************************************)

V_aStar == <<"a", ".", "*">>
V_starB == <<".", "*", "b">>
V_c == <<"c">>

RegexFilterValues == {StringValue(V_aStar), StringValue(V_starB), StringValue(V_c)}

RegexFilters == {Filter(m, v) : m \in RequestFilterModes, v \in RegexFilterValues}

NonEmptyRegexGroups(n) == UNION {[1..k -> RegexFilters] : k \in 1..n}

RECURSIVE RegexGroupLists(_)
\* the lists of non-empty filter groups that hold at most n filters together
RegexGroupLists(n) ==
    {<<>>} \cup UNION {{<<g>> \o rest : rest \in RegexGroupLists(n - Len(g))} :
                        g \in NonEmptyRegexGroups(n)}

RegexFilterInit ==
    /\ filterColumn = Col_company_name
    /\ filterGroups \in (RegexGroupLists(MaxFilters) \ {<<>>})
    /\ whereResult = PredicateOk(<<>>)
    /\ filterPc = "start"

(***************************************************************************)
(* Schema resolution (config.SchemaMapper)                                 *)
(***************************************************************************)

\* config.TableSchemaExtensionTable (Title carries no behaviour)
TableSchemaExtensionTable(table, key) == [Table |-> table, Key |-> key]

\* config.TableSchema; absent (nil) exclusions are the empty list: without
\* exclusions resolveColumns returns the accumulated columns either way
TableSchema(entity, extensions, exclusions, columns) ==
    [Entity |-> entity, Extensions |-> extensions, Exclusions |-> exclusions,
     Columns |-> columns]

\* TableSchemaColumn{}: what make([]TableSchemaColumn, n) is filled with
ZeroColumn == Column(<<>>, <<>>, "", "", "")

\* ([]TableSchemaColumn, nil)
ResolveOk(columns) == [columns |-> columns, err |-> ""]

\* a table that is not found counts as a schema without columns
UnresolvableSchemaError_Ignored(table) == ResolveOk(<<>>)

\* (nil, &UnresolvableSchemaError{schema: table})
UnresolvableSchemaError(table) == [columns |-> <<>>, err |-> table]

\* strings.TrimPrefix(s, prefix)
TrimPrefix(s, prefix) ==
    IF HasPrefix(s, prefix) THEN SubSeq(s, Len(prefix) + 1, Len(s)) ELSE s

\* the prefix and the whole path of the column, the first segment kept
resolveColumnWithPrefix_KeepFirstSegment(column, prefix) ==
    IF prefix # <<>> THEN [column EXCEPT !.Path = prefix \o US \o column.Path]
    ELSE column

resolveColumnWithPrefix(column, prefix) ==
    IF prefix # <<>>
    THEN LET pathStart == IndexUnderscorePlusOne(column.Path)
             path == SubSeq(column.Path, pathStart + 1, Len(column.Path))
         IN  [column EXCEPT !.Path = prefix \o US \o path]
    ELSE column

\* the substitution prefix resolveColumnsWithPrefix hands to an extension
ExtensionString(resolvableSchema, table, prefix) ==
    LET extensionString == IF prefix # <<>> THEN prefix ELSE resolvableSchema.Entity
    IN  IF extensionString # <<>> /\ table.Key # <<>>
        THEN extensionString \o US \o table.Key
        ELSE IF table.Key # <<>> THEN table.Key
        ELSE extensionString

RECURSIVE resolveColumnsWithPrefix(_, _, _)
RECURSIVE ResolveExtensionsFrom(_, _, _, _, _)

\* the second loop of resolveColumnsWithPrefix, from extension i on
ResolveExtensionsFrom(resolvableSchema, allSchemas, prefix, i, newColumns) ==
    IF i > Len(resolvableSchema.Extensions) THEN ResolveOk(newColumns)
    ELSE LET table == resolvableSchema.Extensions[i]
         IN  IF table.Table \notin DOMAIN allSchemas
             THEN UnresolvableSchemaError(table.Table)
             ELSE LET resolved ==
                          resolveColumnsWithPrefix(
                              allSchemas[table.Table], allSchemas,
                              ExtensionString(resolvableSchema, table, prefix))
                  IN  IF resolved.err # "" THEN resolved
                      ELSE ResolveExtensionsFrom(
                               resolvableSchema, allSchemas, prefix, i + 1,
                               newColumns \o resolved.columns)

resolveColumnsWithPrefix(resolvableSchema, allSchemas, prefix) ==
    ResolveExtensionsFrom(
        resolvableSchema, allSchemas, prefix, 1,
        [i \in 1..Len(resolvableSchema.Columns) |->
            resolveColumnWithPrefix(resolvableSchema.Columns[i], prefix)])

\* the key set of the map resolveDeletableColumns returns
resolveDeletableColumns(newColumns, schema) ==
    {newColumns[i].Path : i \in
        {j \in DOMAIN newColumns :
            \E e \in DOMAIN schema.Exclusions :
                TrimPrefix(newColumns[j].Path, schema.Exclusions[e])
                    # newColumns[j].Path}}

\* finalColumns has one slot per accumulated column less one per KEY of
\* deletableColumns; the loop fills the slots from the front with the columns
\* whose path is no key, the slots it does not reach keep the zero value
resolveColumns(schema, allSchemas) ==
    LET resolved == resolveColumnsWithPrefix(schema, allSchemas, <<>>)
    IN  IF resolved.err # "" THEN resolved
        ELSE LET newColumns == resolved.columns
                 deletableColumns == resolveDeletableColumns(newColumns, schema)
                 size == Len(newColumns) - Cardinality(deletableColumns)
                 kept == SelectSeq(newColumns,
                                   LAMBDA c : c.Path \notin deletableColumns)
             IN  ResolveOk([i \in 1..size |->
                               IF i <= Len(kept) THEN kept[i] ELSE ZeroColumn])

\* resolvedColumnsMaps: a later column of the same path replaces an earlier
ColumnsMap(columns) ==
    [p \in {columns[i].Path : i \in DOMAIN columns} |->
        columns[CHOOSE i \in DOMAIN columns :
                    /\ columns[i].Path = p
                    /\ \A j \in DOMAIN columns : columns[j].Path = p => j <= i]]

ResolvedTableSchema(schema, columns) ==
    [originalSchema |-> schema, columns |-> columns,
     columnsMap |-> ColumnsMap(columns)]

\* ResolvedTableSchema.Column: (column, nil) or (TableSchemaColumn{}, ErrUnknownColumn)
SchemaColumn(resolvedTableSchema, key) ==
    IF key \in DOMAIN resolvedTableSchema.columnsMap
    THEN [column |-> resolvedTableSchema.columnsMap[key], err |-> ""]
    ELSE [column |-> ZeroColumn, err |-> "unknown column"]

\* validColumnTypes
validColumnTypes == {T_boolean, T_integer, T_long, T_string, T_date, T_datetime}

\* EnumMapper.Enum on a mapper that knows the enums named in enums: nil or
\* ErrUnknownEnum
EnumMapper_Enum(enums, enum) == IF enum \in enums THEN "" ELSE "unknown enum"

\* no error
Nil == [schema |-> <<>>, column |-> <<>>, columnType |-> <<>>, unknown |-> FALSE]

\* &UnknownColumnTypeError{schema, column, columnType}
UnknownColumnTypeError(schema, column, columnType) ==
    [schema |-> schema, column |-> column, columnType |-> columnType, unknown |-> TRUE]

\* the test of TableSchema.ValidateIntegrity's loop on one column
ColumnTypeUnknown(column, enums) ==
    /\ ToLower(column.Type) \notin validColumnTypes
    /\ EnumMapper_Enum(enums, column.Type) # ""

\* TableSchema.ValidateIntegrity: the error of the first declared column of
\* unknown type, or nil
TableSchema_ValidateIntegrity(schema, enums) ==
    IF \E i \in DOMAIN schema.Columns : ColumnTypeUnknown(schema.Columns[i], enums)
    THEN LET first == CHOOSE i \in DOMAIN schema.Columns :
                          /\ ColumnTypeUnknown(schema.Columns[i], enums)
                          /\ \A j \in 1..(i - 1) :
                                 ~ColumnTypeUnknown(schema.Columns[j], enums)
         IN  UnknownColumnTypeError(schema.Entity, schema.Columns[first].Path,
                                    schema.Columns[first].Type)
    ELSE Nil

\* SchemaMapper.ValidateIntegrity: what the call may return, the map of the
\* schemas being ranged over in any order up to the first error
SchemaMapper_ValidateIntegrity(allSchemas, enums) ==
    LET errors == {TableSchema_ValidateIntegrity(allSchemas[table], enums) :
                      table \in DOMAIN allSchemas} \ {Nil}
    IN  IF errors = {} THEN {Nil} ELSE errors

\* ---- the schema files of the tests and of the README ----
W_abstractEntity == <<"a", "b", "s", "t", "r", "a", "c", "t", "E", "n", "t", "i", "t", "y">>
W_uuid == <<"u", "u", "i", "d">>
W_createDateUtc == <<"c", "r", "e", "a", "t", "e", "D", "a", "t", "e", "U", "t", "c">>
W_lastModificationDateUtc == <<"l", "a", "s", "t", "M", "o", "d", "i", "f", "i", "c", "a", "t", "i", "o", "n", "D", "a", "t", "e", "U", "t", "c">>
W_organization == <<"o", "r", "g", "a", "n", "i", "z", "a", "t", "i", "o", "n">>
W_assignedPerson == <<"a", "s", "s", "i", "g", "n", "e", "d", "P", "e", "r", "s", "o", "n">>
W_personKey == <<"p", "e", "r", "s", "o", "n", "K", "e", "y">>
W_companyKey == <<"c", "o", "m", "p", "a", "n", "y", "K", "e", "y">>

Str_company_companyKey == W_company \o US \o W_companyKey
Str_company_name == W_company \o US \o W_name
Str_company_uuid == W_company \o US \o W_uuid
Str_company_createDateUtc == W_company \o US \o W_createDateUtc
Str_company_lastModificationDateUtc == W_company \o US \o W_lastModificationDateUtc
Str_organization_name == W_organization \o US \o W_name
Str_organization_assignedPerson == W_organization \o US \o W_assignedPerson
Str_organization_assignedPerson_personKey ==
    Str_organization_assignedPerson \o US \o W_personKey

Col_abstractEntity_uuid ==
    Column(W_abstractEntity \o US \o W_uuid, T_string, "StringRegExFilter", "", "")

Col_abstractEntity_createDateUtc ==
    Column(W_abstractEntity \o US \o W_createDateUtc, T_DateTime, "DateTimeFilter", "", "")

Col_abstractEntity_lastModificationDateUtc ==
    Column(W_abstractEntity \o US \o W_lastModificationDateUtc, T_DateTime,
           "DateTimeFilter", "", "")

Col_person_personKey == Column(Str_person_personKey, T_long, "NumericFilter", "", "")

Col_organization_name ==
    Column(Str_organization_name, T_string, "StringRegExFilter", "", "")

\* the enums of testfiles/enum-test-files and the type of the schema test
T_country == <<"c", "o", "u", "n", "t", "r", "y">>
T_addressType == <<"a", "d", "d", "r", "e", "s", "s", "T", "y", "p", "e">>
T_CompanyClassification ==
    <<"C", "o", "m", "p", "a", "n", "y", "C", "l", "a", "s", "s", "i", "f", "i", "c", "a", "t", "i", "o", "n">>

\* EnumMapper{} and the mapper of testfiles/enum-test-files
EnumMappers == {{}, {T_country, T_addressType}}

\* ValidateIntegrity has not run
NotValidated == [enums |-> {}, err |-> Nil, run |-> FALSE]

\* testfiles/schema-test-files/companies.json as the schema test reads it
Schema_companies ==
    TableSchema(W_company,
                <<TableSchemaExtensionTable("subfolder/abstract_entity", <<>>)>>,
                <<Str_company_lastModificationDateUtc>>,
                <<Col_company_companyKey, Col_company_name>>)

\* testfiles/schema-test-files/subfolder/abstract_entity.json: the two columns
\* the test finds in companies, with or without the column companies excludes
Schema_abstract_entity(withLastModification) ==
    TableSchema(W_abstractEntity, <<>>, <<>>,
                <<Col_abstractEntity_uuid, Col_abstractEntity_createDateUtc>>
                    \o (IF withLastModification
                        THEN <<Col_abstractEntity_lastModificationDateUtc>>
                        ELSE <<>>))

\* README, "Extensions": persons used by organization under assignedPerson
Schema_persons == TableSchema(W_person, <<>>, <<>>, <<Col_person_personKey>>)

Schema_organization ==
    TableSchema(W_organization,
                <<TableSchemaExtensionTable("persons", W_assignedPerson)>>,
                <<>>, <<Col_organization_name>>)

FixtureSchemas ==
    {("companies" :> Schema_companies)
        @@ ("subfolder/abstract_entity" :> Schema_abstract_entity(b))
        @@ ("persons" :> Schema_persons)
        @@ ("organization" :> Schema_organization) : b \in BOOLEAN}

\* testfiles/schema-wrong-reference: companies without the file it extends;
\* and organization over persons, which extends a table no file defines
WrongReferenceSchemas ==
    {("companies" :> Schema_companies),
     ("organization" :> Schema_organization)
        @@ ("persons" :>
               [Schema_persons EXCEPT
                   !.Extensions = <<TableSchemaExtensionTable("addresses", <<>>)>>])}

(***************************************************************************)
(* Specification SpecSchema: NewSchemaMapperFromFolder on bounded folders   *)
(***************************************************************************)

MaxColumns == 2

MaxExtensions == 2

SeqsUpTo(S, n) == UNION {[1..k -> S] : k \in 0..n}

PlainColumn(path) == Column(path, T_string, "StringFilter", "", "")

\* schema "x" (entity a) extends "y" (entity b), which may extend "z"
\* (entity c); "missing" is a table no file defines
XColumns == SeqsUpTo({PlainColumn(<<"a", "_", "x">>), PlainColumn(<<"a", "_", "y">>)},
                     MaxColumns)

XExtensions ==
    SeqsUpTo({TableSchemaExtensionTable("y", <<>>),
              TableSchemaExtensionTable("y", <<"k">>),
              TableSchemaExtensionTable("missing", <<>>)}, MaxExtensions)

XExclusions ==
    {<<>>, << <<"a", "_", "x">> >>, << <<"a", "_", "k">> >>,
     << <<"a", "_", "y">>, <<"a", "_", "k", "_", "x">> >>}

YColumns ==
    {<<PlainColumn(<<"b", "_", "x">>)>>,
     <<PlainColumn(<<"b", "_", "x">>),
       Column(<<"b", "_", "y", "Z">>, T_addressType, "EnumFilter", "EnumOrder", "")>>}

YExtensions ==
    {<<>>, <<TableSchemaExtensionTable("z", <<>>)>>,
     <<TableSchemaExtensionTable("z", <<"k">>)>>}

\* the column of "z" is a string, an enum of the enum test files or the type
\* the schema test finds unknown
ZTypes == {T_string, T_country, T_CompanyClassification}

Schema_z(type) ==
    TableSchema(<<"c">>, <<>>, <<>>, <<[PlainColumn(<<"c", "_", "x">>) EXCEPT !.Type = type]>>)

GeneratedSchemas ==
    {("x" :> TableSchema(<<"a">>, xe, xx, xc))
        @@ ("y" :> TableSchema(<<"b">>, ye, <<>>, yc))
        @@ ("z" :> Schema_z(zt)) :
        xc \in XColumns, xe \in XExtensions, xx \in XExclusions,
        yc \in YColumns, ye \in YExtensions, zt \in ZTypes}

SchemaInit ==
    /\ schemas \in FixtureSchemas \cup WrongReferenceSchemas \cup GeneratedSchemas
    /\ resolvedSchemas = <<>>
    /\ mapperErr = ""
    /\ integrity = NotValidated

\* no schema folder is loaded
SchemaIdle ==
    /\ schemas = <<>>
    /\ resolvedSchemas = <<>>
    /\ mapperErr = ""
    /\ integrity = NotValidated

\* One iteration of the loop of mapSchemasToResolvedSchemas, which ranges
\* over the map of schemas in any order and returns at the first error.
mapSchemasToResolvedSchemas ==
    /\ mapperErr = ""
    /\ \E table \in (DOMAIN schemas) \ (DOMAIN resolvedSchemas) :
           LET resolved == resolveColumns(schemas[table], schemas)
           IN  IF resolved.err # ""
               THEN /\ mapperErr' = resolved.err
                    /\ resolvedSchemas' = <<>>
               ELSE /\ resolvedSchemas' =
                           (table :> ResolvedTableSchema(schemas[table],
                                                         resolved.columns))
                               @@ resolvedSchemas
                    /\ UNCHANGED mapperErr
    /\ UNCHANGED <<schemas, integrity, nonSchemaVars>>

\* NewConnector on the mapper NewSchemaMapperFromFolder has returned and on
\* one of the enum mappers: schemaMapper.ValidateIntegrity(enumMapper)
ValidateIntegrityCall ==
    /\ mapperErr = ""
    /\ DOMAIN resolvedSchemas = DOMAIN schemas
    /\ ~integrity.run
    /\ \E enums \in EnumMappers :
           \E err \in SchemaMapper_ValidateIntegrity(schemas, enums) :
               integrity' = [enums |-> enums, err |-> err, run |-> TRUE]
    /\ UNCHANGED <<schemas, resolvedSchemas, mapperErr, nonSchemaVars>>

SchemaNext == mapSchemasToResolvedSchemas \/ ValidateIntegrityCall

(***************************************************************************)
(* sqlsource.Connector: the request and its validation                     *)
(***************************************************************************)

\* tableaux.Order
OrderAsc == <<"A", "S", "C">>
OrderDesc == <<"D", "E", "S", "C">>

\* Order.Reverse
Reverse(order) == IF order = OrderAsc THEN OrderDesc ELSE OrderAsc

\* datasource.NewOrder
NewOrder(path, direction, sortKeys) ==
    [path |-> path, direction |-> direction, sortKeys |-> sortKeys]

\* datasource.NewFilterGroup
NewFilterGroup(path, filters) == [path |-> path, filters |-> filters]

\* NewConnector: the keys of the three strategy maps
Resolvers == {"", "SizePathResolver"}

Sorters == {"", "EnumOrder", "ShortEnumOrder", "LongEnumOrder"}

Filters ==
    {"BooleanFilter", "StringFilter", "StringRegExFilter", "EnumFilter",
     "NumericFilter", "DateFilter", "DateTimeFilter"}

\* the languages the translator has a catalog for
Languages == {"en", "de"}

\* Translator.Language: nil or ErrUnknownLanguage
Language(language) == IF language \in Languages THEN "" ELSE "unknown language"

\* the error of the first element that has one, "" if none has
FirstError(errs) ==
    IF \E i \in DOMAIN errs : errs[i] # ""
    THEN errs[CHOOSE i \in DOMAIN errs :
                  errs[i] # "" /\ \A j \in 1..(i - 1) : errs[j] = ""]
    ELSE ""

\* the body of ValidateRequest's loop over the selected columns
ValidateColumn(column, schema) ==
    IF SchemaColumn(schema, column.Path).err # "" THEN "unknown column"
    ELSE IF column.PathResolver \notin Resolvers THEN "unknown path resolver"
    ELSE IF column.Filter \notin Filters THEN "unknown filter"
    ELSE IF column.Order \notin Sorters THEN "unknown order"
    ELSE ""

\* ValidateRequest with the loop over the orders left out
ValidateRequest_OrdersUnchecked(columns, schema, filters, orders, locale) ==
    IF Len(columns) = 0 THEN "no columns selected"
    ELSE IF Language(locale) # "" THEN "unknown locale"
    ELSE FirstError(
             [i \in DOMAIN columns |-> ValidateColumn(columns[i], schema)]
             \o [i \in DOMAIN filters |->
                    IF SchemaColumn(schema, filters[i].path).err = "unknown column"
                    THEN "unknown filter column" ELSE ""])

\* Connector.ValidateRequest: "" for nil, else the kind of the error
ValidateRequest(columns, schema, filters, orders, locale) ==
    IF Len(columns) = 0 THEN "no columns selected"
    ELSE IF Language(locale) # "" THEN "unknown locale"
    ELSE FirstError(
             [i \in DOMAIN columns |-> ValidateColumn(columns[i], schema)]
             \o [i \in DOMAIN filters |->
                    IF SchemaColumn(schema, filters[i].path).err = "unknown column"
                    THEN "unknown filter column" ELSE ""]
             \o [i \in DOMAIN orders |->
                    IF SchemaColumn(schema, orders[i].path).err = "unknown column"
                    THEN "unknown order column" ELSE ""])

\* ---- the schema folder and the database of the connector ----
W_supervisor == <<"s", "u", "p", "e", "r", "v", "i", "s", "o", "r">>
W_persons == <<"p", "e", "r", "s", "o", "n", "s">>
W_supervisors == <<"s", "u", "p", "e", "r", "v", "i", "s", "o", "r", "s">>
W_organizationKey == <<"o", "r", "g", "a", "n", "i", "z", "a", "t", "i", "o", "n", "K", "e", "y">>
W_wat == <<"w", "a", "t">>

Str_organization_organizationKey == W_organization \o US \o W_organizationKey
Str_organization_uuid == W_organization \o US \o W_uuid
Str_organization_persons == W_organization \o US \o W_persons
Str_organization_supervisors == W_organization \o US \o W_supervisors
Str_organization_assignedPerson_name == Str_organization_assignedPerson \o US \o W_name
Str_organization_assignedPerson_supervisor ==
    Str_organization_assignedPerson \o US \o W_supervisor
Str_organization_assignedPerson_supervisor_name ==
    Str_organization_assignedPerson_supervisor \o US \o W_name
Str_organization_wat == W_organization \o US \o W_wat
\* a column as the README's schema example declares it, its order strategy
\* "NumericOrder"
Str_organization_divisionId ==
    W_organization \o US \o <<"d", "i", "v", "i", "s", "i", "o", "n", "I", "d">>
W_assigned == <<"a", "s", "s", "i", "g", "n", "e", "d">>
W_deputy == <<"d", "e", "p", "u", "t", "y">>
Str_organization_assigned_deputy_name ==
    W_organization \o US \o W_assigned \o US \o W_deputy \o US \o W_name

\* organization: its key columns, its name, the sizes of two relations and
\* the persons related to it under the keys assignedPerson and assigned; a
\* person has a supervisor and a deputy (README, "Extensions", "Exclusions")
ConnectorSchemas ==
    (W_organization :>
        TableSchema(W_organization,
            <<TableSchemaExtensionTable(W_persons, W_assignedPerson),
              TableSchemaExtensionTable(W_persons, W_assigned)>>, <<>>,
            <<Column(Str_organization_organizationKey, T_long, "NumericFilter", "", ""),
              Column(Str_organization_uuid, T_string, "StringFilter", "", ""),
              Col_organization_name,
              Column(Str_organization_divisionId, T_long, "NumericFilter", "NumericOrder", ""),
              Column(Str_organization_persons, T_integer, "NumericFilter", "",
                     "SizePathResolver"),
              Column(Str_organization_supervisors, T_integer, "NumericFilter", "",
                     "SizePathResolver")>>))
    @@ (W_persons :>
        TableSchema(W_person,
            <<TableSchemaExtensionTable(W_supervisors, W_supervisor),
              TableSchemaExtensionTable(W_supervisors, W_deputy)>>, <<>>,
            <<Col_person_personKey,
              Column(W_person \o US \o W_name, T_string, "StringRegExFilter", "", "")>>))
    @@ (W_supervisors :>
        TableSchema(W_person, <<>>, <<>>,
            <<Column(W_person \o US \o W_name, T_string, "StringRegExFilter", "", "")>>))

\* SchemaMapper.ResolvedSchema("organization")
OrganizationSchema ==
    ResolvedTableSchema(
        ConnectorSchemas[W_organization],
        resolveColumns(ConnectorSchemas[W_organization], ConnectorSchemas).columns)

\* a column of the schema, as a client selects it
Selected(path) == SchemaColumn(OrganizationSchema, path).column

(***************************************************************************)
(* CommonKeyResolver / CommonJoinResolver                                  *)
(***************************************************************************)

\* sqlsource.TableColumn
TableColumn(table, column) == [Table |-> table, Column |-> column]

\* sqlsource.TableDoublet
TableDoublet(originName, targetName) ==
    [OriginName |-> originName, TargetName |-> targetName]

\* sqlsource.TableKeyDoublet
TableKeyDoublet(primaryKey, foreignKey) ==
    [PrimaryKey |-> primaryKey, ForeignKey |-> foreignKey]

\* CommonKeyResolver.ResolvePrimaryKey: nil for a table without entry
ResolvePrimaryKey(caches, tableName) ==
    IF DescriptorToIdentifier(tableName) \in DOMAIN caches.primaryKeyMap
    THEN caches.primaryKeyMap[DescriptorToIdentifier(tableName)]
    ELSE <<>>

\* CommonKeyResolver.ResolveRelation: nil for a pair without entry
ResolveRelation(caches, originName, targetName) ==
    LET key == TableDoublet(DescriptorToIdentifier(originName),
                            DescriptorToIdentifier(targetName))
    IN  IF key \in DOMAIN caches.relationMap THEN caches.relationMap[key] ELSE <<>>

\* sqlsource.NewJoin
NewJoin(sourceTable, sourceColumn, targetTable, targetColumn, joinAlias, joinType) ==
    [sourceTable |-> sourceTable, sourceColumn |-> sourceColumn,
     targetTable |-> targetTable, targetColumn |-> targetColumn,
     joinAlias |-> joinAlias, joinType |-> joinType]

\* Join{}
ZeroJoin == NewJoin(<<>>, <<>>, <<>>, <<>>, <<>>, <<>>)

LEFT == <<"L", "E", "F", "T">>

\* sqlsource.NewCountJoin
NewCountJoin(originEntity, originEntityPrimaryKey, countEntity, countEntityPrimaryKey, countEntityForeignKey, alias) ==
    [originEntity |-> originEntity,
     originEntityPrimaryKey |-> originEntityPrimaryKey,
     countEntity |-> countEntity,
     countEntityPrimaryKey |-> countEntityPrimaryKey,
     countEntityForeignKey |-> countEntityForeignKey,
     alias |-> alias]

\* CommonJoinResolver.findRelationTarget: the results the call may give.
\* Without the "<column>_uuid" entry the map is ranged over and the first
\* key met of the table whose column starts with the wanted column is
\* taken: any of these keys, as the order of the range is not fixed.
findRelationTarget(foreignKeyMap, joinSource) ==
    LET shortcutKey == TableColumn(joinSource.Table, joinSource.Column \o <<"_", "u", "u", "i", "d">>)
        candidates == {k \in DOMAIN foreignKeyMap :
                          /\ k.Table = joinSource.Table
                          /\ HasPrefix(k.Column, joinSource.Column)}
    IN  IF shortcutKey \in DOMAIN foreignKeyMap
        THEN {[foreignLink |-> foreignKeyMap[shortcutKey],
               backLink |-> shortcutKey, err |-> ""]}
        ELSE IF candidates # {}
        THEN {[foreignLink |-> foreignKeyMap[k],
               backLink |-> TableColumn(joinSource.Table, k.Column),
               err |-> ""] : k \in candidates}
        ELSE {[foreignLink |-> TableColumn(<<>>, <<>>),
               backLink |-> TableColumn(<<>>, <<>>),
               err |-> "cannot find relation target"]}

\* CommonJoinResolver.ResolvePath: the results the call may give, each with
\* the join, the error ("fatal" where log.Fatal ends the process) and the
\* alias cache the call leaves
ResolvePath(cache, foreignKeyMap, joinPath) ==
    LET joinAlias == DescriptorToIdentifier(joinPath)
        joinPaths == Split(joinPath)
        parent == DescriptorToIdentifier(
                      Join(SubSeq(joinPaths, 1, Len(joinPaths) - 1)))
        joinSource == IF Len(joinPaths) > 2 THEN cache[parent].targetTable
                      ELSE DescriptorToIdentifier(joinPaths[1])
        origin == IF Len(joinPaths) > 2 THEN parent
                  ELSE DescriptorToIdentifier(DescriptorToIdentifier(joinPaths[1]))
        joinTargetField == DescriptorToIdentifier(joinPaths[Len(joinPaths)])
    IN  IF joinAlias \in DOMAIN cache
        THEN {[join |-> cache[joinAlias], err |-> "", cache |-> cache]}
        ELSE IF Len(joinPaths) > 2 /\ parent \notin DOMAIN cache
        THEN {[join |-> ZeroJoin, err |-> "fatal", cache |-> cache]}
        ELSE {IF t.err # ""
              THEN [join |-> ZeroJoin, err |-> t.err, cache |-> cache]
              ELSE LET resolvedJoin ==
                           NewJoin(origin, t.backLink.Column, t.foreignLink.Table,
                                   t.foreignLink.Column, joinAlias, LEFT)
                   IN  [join |-> resolvedJoin, err |-> "",
                        cache |-> IF joinSource \notin DOMAIN cache
                                  THEN (joinAlias :> resolvedJoin) @@ cache
                                  ELSE cache] :
              t \in findRelationTarget(foreignKeyMap,
                                       TableColumn(joinSource, joinTargetField))}

\* CommonJoinResolver.ResolveCountJoin: the results the call may give; the
\* error is "panic" where the first element of an empty key list is taken
ResolveCountJoin(cache, caches, allSchemas, path) ==
    LET pathParts == Split(path)
        schemaKey == ToLower(pathParts[Len(pathParts)])
        countTargetTable == allSchemas[schemaKey]
        countOriginPaths == SubSeq(pathParts, 1, Len(pathParts) - 1)
        originTable == Join(countOriginPaths)
        origins ==
            IF Len(countOriginPaths) > 1
            THEN ResolvePath(cache, caches.foreignKeyMap,
                             DescriptorToIdentifier(Join(countOriginPaths)))
            ELSE {[join |-> [ZeroJoin EXCEPT !.targetTable = countOriginPaths[1]],
                   err |-> "", cache |-> cache]}
        zero == NewCountJoin(<<>>, <<>>, <<>>, <<>>, <<>>, <<>>)
    IN  IF schemaKey \notin DOMAIN allSchemas
        THEN {[countJoin |-> zero, err |-> "unknown schema", cache |-> cache]}
        ELSE {IF o.err # ""
              THEN [countJoin |-> zero, err |-> o.err, cache |-> o.cache]
              ELSE LET primaryKeys == ResolvePrimaryKey(caches, countTargetTable.Entity)
                       relations == ResolveRelation(caches, countTargetTable.Entity,
                                                    o.join.targetTable)
                   IN  IF primaryKeys = <<>> \/ relations = <<>>
                       THEN [countJoin |-> zero, err |-> "panic", cache |-> o.cache]
                       ELSE [countJoin |->
                                NewCountJoin(
                                    DescriptorToIdentifier(originTable),
                                    relations[1].PrimaryKey,
                                    DescriptorToIdentifier(countTargetTable.Entity),
                                    primaryKeys[1],
                                    relations[1].ForeignKey,
                                    DescriptorToIdentifier(path)),
                             err |-> "", cache |-> o.cache] :
              o \in origins}

(***************************************************************************)
(* CommonQueryBuilder: joins and orders                                    *)
(***************************************************************************)

\* CommonQueryBuilder.ResolvedToJoinString
ResolvedToJoinString(resolvedJoin) ==
    resolvedJoin.joinType \o <<" ", "J", "O", "I", "N", " ">> \o resolvedJoin.targetTable \o <<" ", "A", "S", " ">>
        \o resolvedJoin.joinAlias \o <<" ", "O", "N", " ">> \o resolvedJoin.joinAlias \o <<".">>
        \o resolvedJoin.targetColumn \o <<"=">> \o resolvedJoin.sourceTable
        \o <<".">> \o resolvedJoin.sourceColumn

\* CommonQueryBuilder.CountJoinToJoinString
CountJoinToJoinString(resolvedCount) ==
    <<"L", "E", "F", "T", " ", "J", "O", "I", "N", " ", "(", "S", "E", "L", "E", "C", "T", " ">> \o resolvedCount.countEntityForeignKey \o <<",", " ", "C", "O", "U", "N", "T", "(">>
        \o resolvedCount.countEntityPrimaryKey \o <<")", " ", "A", "S", " ", "c", "o", "u", "n", "t", "_", "r", "e", "s", "u", "l", "t", " ">>
        \o <<"F", "R", "O", "M", " ">> \o resolvedCount.countEntity \o <<" ">>
        \o <<"G", "R", "O", "U", "P", " ", "B", "Y", " ">> \o resolvedCount.countEntityForeignKey
        \o <<")", " ", "A", "S", " ">> \o resolvedCount.alias \o <<" ", "O", "N", " ">> \o resolvedCount.alias
        \o <<".">> \o resolvedCount.countEntityForeignKey \o <<" ", "=", " ">>
        \o resolvedCount.originEntity \o <<".">> \o resolvedCount.originEntityPrimaryKey

\* CommonQueryBuilder.OrderColumn
CommonQueryBuilder_OrderColumn(path, direction) == path \o <<" ">> \o direction

\* the sort keys as strings, for the keys that are a string or an integer
SanitizedKeys(sortKeys) ==
    [i \in DOMAIN sortKeys |->
        IF sortKeys[i].t = "string" THEN sortKeys[i].s ELSE FormatInt(sortKeys[i].n)]

\* sqlsource.OrderColumn: the text of one order, or a panic.  With sort keys
\* that are all strings or integers and not ascending, line 90 asserts the
\* value of sort.Reverse, a *sort.reverse, to be a sort.StringSlice, which
\* panics.  Without sort keys the sorter of the column is asked: Direct for
\* the key ""; a key that is not registered has a nil sorter, which panics.
\* (No column of the connector's folder names one of the enum sorters.)
OrderColumn(path, column, order) ==
    LET predefinedSortKeys == order.sortKeys
        bailOut == \E i \in DOMAIN predefinedSortKeys :
                       predefinedSortKeys[i].t \notin {"string", "int64", "uint64"}
        sanitizedKeys == SanitizedKeys(predefinedSortKeys)
        ascending == \A i \in 1..(Len(sanitizedKeys) - 1) :
                         ~StrLess(sanitizedKeys[i + 1], sanitizedKeys[i])
    IN  IF Len(predefinedSortKeys) > 0 /\ ~bailOut
        THEN IF ascending
             THEN [panic |-> FALSE,
                   text |-> CommonQueryBuilder_OrderColumn(path, order.direction)]
             ELSE [panic |-> TRUE, text |-> <<>>]
        ELSE CASE column.Order = "" ->
                    [panic |-> FALSE,
                     text |-> CommonQueryBuilder_OrderColumn(path, order.direction)]
               [] column.Order \notin Sorters -> [panic |-> TRUE, text |-> <<>>]

(***************************************************************************)
(* Connector: the join planner                                             *)
(***************************************************************************)

mergedParticipatingPaths(columns, orders, filters) ==
    {columns[i].Path : i \in DOMAIN columns}
        \cup {orders[i].path : i \in DOMAIN orders}
        \cup {filters[i].path : i \in DOMAIN filters}

RECURSIVE SortStrings(_)
\* sort.Strings on the keys of a map: ascending byte order
SortStrings(S) ==
    IF S = {} THEN <<>>
    ELSE LET least == CHOOSE x \in S : \A y \in S \ {x} : StrLess(x, y)
         IN  <<least>> \o SortStrings(S \ {least})

\* the leaf kept among the prefixes
calculatePathsForJoins_WithLeaf(columns, orders, filters) ==
    SortStrings(UNION {
        LET pathParts == Split(columnPath)
        IN  {Join(SubSeq(pathParts, 1, i)) : i \in 2..Len(pathParts)} :
        columnPath \in mergedParticipatingPaths(columns, orders, filters)})

calculatePathsForJoins(columns, orders, filters) ==
    SortStrings(UNION {
        LET pathParts == Split(columnPath)
        IN  IF Len(pathParts) > 2
            THEN {Join(SubSeq(pathParts, 1, i)) : i \in 2..(Len(pathParts) - 1)}
            ELSE {} :
        columnPath \in mergedParticipatingPaths(columns, orders, filters)})

\* calculatePathsForCountJoins: the lists the call may give, the participating
\* paths being ranged over in any order
calculatePathsForCountJoins(columns, orders, filters, schema) ==
    IterationOrders(
        {columnPath \in mergedParticipatingPaths(columns, orders, filters) :
            /\ SchemaColumn(schema, columnPath).err = ""
            /\ SchemaColumn(schema, columnPath).column.PathResolver
                   = "SizePathResolver"})

RECURSIVE ResolveJoinsFrom(_, _, _, _, _)
\* the first loop of resolveJoinString from path i on
ResolveJoinsFrom(joinPathList, i, cache, caches, joinStrings) ==
    IF i > Len(joinPathList)
    THEN {[joinStrings |-> joinStrings, err |-> "", cache |-> cache]}
    ELSE UNION {
        IF r.err # ""
        THEN {[joinStrings |-> <<>>, err |-> r.err, cache |-> r.cache]}
        ELSE ResolveJoinsFrom(joinPathList, i + 1, r.cache, caches,
                              Append(joinStrings, ResolvedToJoinString(r.join))) :
        r \in ResolvePath(cache, caches.foreignKeyMap, joinPathList[i])}

RECURSIVE ResolveCountJoinsFrom(_, _, _, _, _, _)
\* the second loop of resolveJoinString from count path i on
ResolveCountJoinsFrom(countPaths, i, cache, caches, allSchemas, joinStrings) ==
    IF i > Len(countPaths)
    THEN {[joinStrings |-> joinStrings, err |-> "", cache |-> cache]}
    ELSE UNION {
        IF r.err # ""
        THEN {[joinStrings |-> <<>>, err |-> r.err, cache |-> r.cache]}
        ELSE ResolveCountJoinsFrom(countPaths, i + 1, r.cache, caches, allSchemas,
                                   Append(joinStrings, CountJoinToJoinString(r.countJoin))) :
        r \in ResolveCountJoin(cache, caches, allSchemas, countPaths[i])}

\* Connector.resolveJoinString: the results the call may give, the joined
\* text in joinString
resolveJoinString(columns, orders, schema, filters, cache, caches, allSchemas) ==
    UNION {
        IF joins.err # "" THEN {[joinString |-> <<>>, err |-> joins.err, cache |-> joins.cache]}
        ELSE UNION {
            {[joinString |-> JoinWith(r.joinStrings, <<" ">>), err |-> r.err,
              cache |-> r.cache] :
             r \in ResolveCountJoinsFrom(countPaths, 1, joins.cache, caches,
                                         allSchemas, joins.joinStrings)} :
            countPaths \in calculatePathsForCountJoins(columns, orders, filters, schema)} :
        joins \in ResolveJoinsFrom(calculatePathsForJoins(columns, orders, filters),
                                   1, cache, caches, <<>>)}

(***************************************************************************)
(* Connector.fetchData                                                     *)
(***************************************************************************)

\* the filter groups of one path, in request order (uniqueFilterPaths[path])
GroupsOfPath(filters, rawPath) ==
    LET ofPath == SelectSeq(filters, LAMBDA g : g.path = rawPath)
    IN  [i \in DOMAIN ofPath |-> ofPath[i].filters]

\* the body of filterString's loop for one path: the results it may give;
\* "panic" where a strategy of the schema column is not registered (nil) or
\* the filter cannot cast a value
FilterStringOfPath(filters, schema, rawPath) ==
    LET found == SchemaColumn(schema, rawPath)
        schemaColumn == found.column
        columnFilter == FilterImplementation(schemaColumn.Filter)
        filterGroupsOfPath == GroupsOfPath(filters, rawPath)
        values == UNION {{filterGroupsOfPath[g][f].value :
                             f \in DOMAIN filterGroupsOfPath[g]} :
                         g \in DOMAIN filterGroupsOfPath}
    IN  IF found.err # "" THEN {PredicateErr("unknown column")}
        ELSE IF \/ schemaColumn.PathResolver \notin Resolvers
                \/ (columnFilter = "nil" /\ values # {})
                \/ \E v \in values : ParseValuePanics(columnFilter, v)
        THEN {PredicateErr("panic")}
        ELSE {FilterColumn(ResolvePathName(schemaColumn.PathResolver, schemaColumn),
                           columnFilter, filterGroupsOfPath, bucketOrders) :
              bucketOrders \in BucketOrders(columnFilter, filterGroupsOfPath)}

\* Connector.filterString: the results the call may give, the map of the
\* filtered paths being ranged over in any order
filterString(filters, schema) ==
    LET paths == {filters[i].path : i \in DOMAIN filters}
        choices == {c \in [paths -> UNION {FilterStringOfPath(filters, schema, q) :
                                            q \in paths}] :
                       \A q \in paths : c[q] \in FilterStringOfPath(filters, schema, q)}
    IN  {LET results == [i \in DOMAIN pathOrder |-> c[pathOrder[i]]]
             err == FirstError([i \in DOMAIN results |-> results[i].err])
         IN  IF err # "" THEN PredicateErr(err)
             ELSE PredicateOk(JoinItems([i \in DOMAIN results |-> results[i].items],
                                        "AND")) :
         pathOrder \in IterationOrders(paths), c \in choices}

\* what one call of fetchData leaves: status "ok" with the parts of the text
\* handed to db.Prepare, "error" with the error returned, "panic" or "fatal"
FetchOutcome(status, err, selectColumns, entity, joinString, where, sortColumns, limited, cache) ==
    [status |-> status, err |-> err, selectColumns |-> selectColumns,
     entity |-> entity, joinString |-> joinString, where |-> where,
     sortColumns |-> sortColumns, limited |-> limited, cache |-> cache]

Failed(err, cache) ==
    FetchOutcome(IF err \in {"panic", "fatal"} THEN err ELSE "error", err,
                 <<>>, <<>>, <<>>, <<>>, <<>>, FALSE, cache)

\* the request's orders and, unless one of them is on pkPath, an ascending
\* order on pkPath
OrdersWithPrimaryKey(orders, pkPath) ==
    IF \E i \in DOMAIN orders : orders[i].path = pkPath THEN orders
    ELSE Append(orders, NewOrder(pkPath, OrderAsc, <<>>))

\* pkPath built from the descriptor of the key column
PkPath_Descriptor(entity, primaryKey) ==
    entity \o US \o IdentifierToDescriptor(primaryKey)

\* pkPath of fetchData
PkPath(entity, primaryKey) == entity \o US \o primaryKey

\* the body of fetchData's loop over the orders
SortColumn(schema, value) ==
    LET found == SchemaColumn(schema, value.path)
        column == IF found.err = "" THEN found.column
                  ELSE [ZeroColumn EXCEPT !.Path = value.path]
    IN  IF column.PathResolver \notin Resolvers THEN [panic |-> TRUE, text |-> <<>>]
        ELSE OrderColumn(ResolvePathName(column.PathResolver, column), column, value)

\* Connector.fetchData up to db.Prepare: the outcomes the call may have
fetchData(columns, filters, orders, schema, limit, locale, cache, caches, allSchemas) ==
    LET entity == schema.originalSchema.Entity
        primaryKeys == ResolvePrimaryKey(caches, entity)
        allOrders == OrdersWithPrimaryKey(orders, PkPath(entity, primaryKeys[1]))
        sortColumns == [i \in DOMAIN allOrders |-> SortColumn(schema, allOrders[i])]
    IN  UNION {
        IF joined.err # "" THEN {Failed(joined.err, joined.cache)}
        ELSE IF \/ \E i \in DOMAIN columns : columns[i].PathResolver \notin Resolvers
                \/ primaryKeys = <<>>
                \/ \E i \in DOMAIN sortColumns : sortColumns[i].panic
        THEN {Failed("panic", joined.cache)}
        ELSE {IF where.err # "" THEN Failed(where.err, joined.cache)
              ELSE FetchOutcome("ok", "",
                       [i \in DOMAIN columns |->
                           ResolvePathName(columns[i].PathResolver, columns[i])
                               \o <<" ", "A", "S", " ">> \o columns[i].Path],
                       entity, joined.joinString, where.items,
                       [i \in DOMAIN sortColumns |-> sortColumns[i].text],
                       limit > 0, joined.cache) :
              where \in filterString(filters, schema)} :
        joined \in resolveJoinString(columns, orders, schema, filters, cache,
                                     caches, allSchemas)}

\* queryString of fetchData before "SELECT " or SelectWithLimitQuery is applied
QueryString(q) ==
    JoinWith(q.selectColumns, <<",">>) \o <<" ", "F", "R", "O", "M", " ">> \o q.entity
        \o (IF q.joinString # <<>> THEN <<" ">> \o q.joinString ELSE <<>>)
        \o (IF q.where # <<>> THEN <<" ", "W", "H", "E", "R", "E", " ">> \o RenderItems(q.where) ELSE <<>>)
        \o <<" ", "O", "R", "D", "E", "R", " ", "B", "Y", " ">> \o JoinWith(q.sortColumns, <<",">>)

(***************************************************************************)
(* Specification SpecConnector: requests against the organization schema   *)
(***************************************************************************)

MaxSelected == 2

MaxGroups == 2

\* the arguments of ValidateRequest / FetchData (globalSearch and offset are
\* read by neither)
Request(columns, filters, orders, limit, locale) ==
    [columns |-> columns, filters |-> filters, orders |-> orders,
     limit |-> limit, locale |-> locale]

W_key_suffix(uuidKeys) == IF uuidKeys THEN <<"_", "u", "u", "i", "d">> ELSE <<"_", "i", "d">>

\* the caches the database connector extracts: the primary key of
\* organization is primaryKey; the foreign keys end in _uuid or in _id
Caches(primaryKey, uuidKeys) ==
    [primaryKeyMap |->
        (W_organization :> <<primaryKey>>) @@ (W_person :> <<Str_person_key>>),
     foreignKeyMap |->
        (TableColumn(W_organization, <<"a", "s", "s", "i", "g", "n", "e", "d", "_", "p", "e", "r", "s", "o", "n">> \o W_key_suffix(uuidKeys))
            :> TableColumn(W_person, Str_person_key))
        @@ (TableColumn(W_organization, W_assigned \o W_key_suffix(uuidKeys))
            :> TableColumn(W_person, Str_person_key))
        @@ (TableColumn(W_person, W_supervisor \o W_key_suffix(uuidKeys))
            :> TableColumn(W_person, Str_person_key))
        @@ (TableColumn(W_person, W_deputy \o W_key_suffix(uuidKeys))
            :> TableColumn(W_person, Str_person_key)),
     relationMap |->
        (TableDoublet(W_person, W_organization)
            :> <<TableKeyDoublet(primaryKey, <<"o", "r", "g", "a", "n", "i", "z", "a", "t", "i", "o", "n", "_", "i", "d">>)>>)]

Str_organization_key == W_organization \o US \o W_key

Databases ==
    {Caches(W_uuid, TRUE), Caches(Str_organization_key, TRUE), Caches(W_uuid, FALSE)}

\* selected columns a client may send: columns of the schema, a path the
\* schema does not have, and columns naming strategies of their own
ValidationColumns ==
    {Selected(Str_organization_name),
     Selected(Str_organization_assignedPerson_supervisor_name),
     PlainColumn(Str_organization_wat),
     [Selected(Str_organization_name) EXCEPT !.PathResolver = "NoPathResolver"],
     [Selected(Str_organization_name) EXCEPT !.Filter = ""],
     [Selected(Str_organization_name) EXCEPT !.Order = "NoOrder"]}

Group_organizationKey_1 ==
    NewFilterGroup(Str_organization_organizationKey, <<Filter(FilterEquals, IntValue(1))>>)

Group_organizationKey_2 ==
    NewFilterGroup(Str_organization_organizationKey,
                   <<Filter(FilterEquals, IntValue(1)), Filter(FilterGreater, IntValue(2))>>)

Group_personKey ==
    NewFilterGroup(Str_organization_assignedPerson_personKey,
                   <<Filter(FilterNotEquals, IntValue(1)), Filter(FilterNotEquals, IntValue(2))>>)

Group_wat ==
    NewFilterGroup(Str_organization_wat, <<Filter(FilterEquals, IntValue(1))>>)

ValidationFilters ==
    {<<>>, <<Group_organizationKey_1>>, <<Group_wat>>,
     <<Group_organizationKey_1, Group_wat>>}

ValidationOrders ==
    {<<>>, <<NewOrder(Str_organization_name, OrderDesc, <<>>)>>,
     <<NewOrder(Str_organization_wat, OrderAsc, <<>>)>>}

ValidationRequests ==
    {Request(c, f, o, 0, l) :
        c \in SeqsUpTo(ValidationColumns, MaxSelected),
        f \in ValidationFilters, o \in ValidationOrders, l \in {"en", "xx"}}

FetchColumns ==
    {<<Selected(Str_organization_name)>>,
     <<Selected(Str_organization_assignedPerson_supervisor_name),
       Selected(Str_organization_name)>>,
     <<Selected(Str_organization_assignedPerson_name),
       Selected(Str_organization_assigned_deputy_name)>>,
     <<Selected(Str_organization_persons), Selected(Str_organization_supervisors)>>}

FetchGroups == {Group_organizationKey_1, Group_organizationKey_2, Group_personKey}

FetchOrders ==
    {<<>>,
     <<NewOrder(Str_organization_name, OrderDesc, <<>>)>>,
     <<NewOrder(Str_organization_organizationKey, OrderAsc, <<>>)>>,
     <<NewOrder(Str_organization_name, OrderDesc, <<>>),
       NewOrder(Str_organization_uuid, OrderAsc, <<>>)>>}

\* requests that differ in the selected columns, the orders and the limit
OrderRequests ==
    {Request(c, <<>>, o, l, "en") : c \in FetchColumns, o \in FetchOrders, l \in {0, 25}}

\* requests that differ in the filter groups
FilterRequests ==
    {Request(c, f, <<>>, 0, "en") :
        c \in {<<Selected(Str_organization_name)>>},
        f \in SeqsUpTo(FetchGroups, MaxGroups)}

Group_divisionId ==
    NewFilterGroup(Str_organization_divisionId, <<Filter(FilterEquals, IntValue(1))>>)

\* requests that filter on and order by a column they do not select
UnselectedRequests ==
    {Request(<<Selected(Str_organization_name)>>, f, o, 0, "en") :
        f \in {<<>>, <<Group_divisionId>>},
        o \in {<<>>, <<NewOrder(Str_organization_divisionId, OrderAsc, <<>>)>>}}

ConnectorInputs ==
    (ValidationRequests \X {Caches(W_uuid, TRUE)})
        \cup (OrderRequests \X Databases)
        \cup (UnselectedRequests \X {Caches(W_uuid, TRUE)})
        \cup (FilterRequests \X {Caches(W_uuid, TRUE), Caches(W_uuid, FALSE)})

\* no call of fetchData yet
NoQuery == FetchOutcome("none", "", <<>>, <<>>, <<>>, <<>>, <<>>, FALSE, <<>>)

ConnInit ==
    /\ \E input \in ConnectorInputs :
           /\ request = input[1]
           /\ dbCaches = input[2]
    /\ joinPathCache = <<>>
    /\ validateErr = "not validated"
    /\ lastQuery = NoQuery
    /\ connPc = "ready"

\* no connector is built
ConnIdle ==
    /\ request = Request(<<>>, <<>>, <<>>, 0, "")
    /\ dbCaches = Caches(W_uuid, TRUE)
    /\ joinPathCache = <<>>
    /\ validateErr = "not validated"
    /\ lastQuery = NoQuery
    /\ connPc = "idle"

\* Connector.ValidateRequest on the request
ValidateRequestCall ==
    /\ connPc # "idle"
    /\ validateErr' = ValidateRequest(request.columns, OrganizationSchema,
                                      request.filters, request.orders, request.locale)
    /\ UNCHANGED <<request, dbCaches, joinPathCache, lastQuery, connPc, nonConnVars>>

\* Connector.FetchData on a request ValidateRequest has accepted: no order of
\* the requests is on a path of more than 2 segments or on a size path, so
\* adviseDeferredLoading says no and the data query is that of fetchData on
\* the arguments.  The count queries resolve the joins of the same filter
\* paths and leave the alias cache as the data query does.
FetchDataCall ==
    /\ connPc # "idle"
    /\ validateErr = ""
    /\ \E outcome \in fetchData(request.columns, request.filters, request.orders,
                                OrganizationSchema, request.limit, request.locale,
                                joinPathCache, dbCaches, ConnectorSchemas) :
           /\ lastQuery' = [outcome EXCEPT !.cache = <<>>]
           /\ joinPathCache' = outcome.cache
    /\ connPc' = "fetched"
    /\ UNCHANGED <<request, dbCaches, validateErr, nonConnVars>>

\* NewCommonJoinResolver: the connector is built anew over the same caches,
\* its alias cache is empty again
NewCommonJoinResolverCall ==
    /\ connPc = "fetched"
    /\ joinPathCache # <<>>
    /\ joinPathCache' = <<>>
    /\ UNCHANGED <<request, dbCaches, validateErr, lastQuery, connPc, nonConnVars>>

ConnNext == ValidateRequestCall \/ FetchDataCall \/ NewCommonJoinResolverCall


(***************************************************************************)
(* config.Translator and the enum sorters (package order)                  *)
(***************************************************************************)

\* LanguageCatalog.Translate: (text, nil) or ("??key??", ErrUnknownTranslation)
LanguageCatalog_Translate(languageCatalog, key) ==
    IF key \notin DOMAIN languageCatalog \/ languageCatalog[key] = <<>>
    THEN [text |-> <<"?", "?">> \o key \o <<"?", "?">>, err |-> "unknown translation key"]
    ELSE [text |-> languageCatalog[key], err |-> ""]

\* Translator.Translate
Translator_Translate(catalogs, language, key) ==
    IF language \notin DOMAIN catalogs
    THEN [text |-> <<>>, err |-> "unknown language"]
    ELSE LanguageCatalog_Translate(catalogs[language], key)

\* Enum.Entries: the entries of the enum, a map from enum key to translation
\* key, in the order the map is ranged over
Entries(enum) ==
    {[i \in DOMAIN keyOrder |->
         [EnumKey |-> keyOrder[i], TranslationKey |-> enum[keyOrder[i]]]] :
     keyOrder \in IterationOrders(DOMAIN enum)}

\* EnumSorter.entriesSortedByKey
entriesSortedByKey(enum) ==
    LET keys == SortStrings(DOMAIN enum)
    IN  [i \in DOMAIN keys |-> [EnumKey |-> keys[i], TranslationKey |-> enum[keys[i]]]]

\* the text the comparison of entriesSortedByTranslationWithSuffix sorts by
SortText(catalogs, locale, entry, translationSuffix) ==
    Translator_Translate(catalogs, locale, entry.TranslationKey \o translationSuffix).text

\* EnumSorter.entriesSortedByTranslationWithSuffix: the orders sort.Slice may
\* leave; entries of the same text stay in the order Entries gave them or
\* are swapped
entriesSortedByTranslationWithSuffix(catalogs, enum, locale, translationSuffix, reverse) ==
    {keys \in Entries(enum) :
        \A i, j \in DOMAIN keys :
            i < j =>
                LET a == SortText(catalogs, locale, keys[i], translationSuffix)
                    b == SortText(catalogs, locale, keys[j], translationSuffix)
                IN  IF reverse THEN ~StrLess(a, b) ELSE ~StrLess(b, a)}

\* the translation keys whose missing translation the comparison logs
LoggedWarnings(catalogs, enum, locale, translationSuffix) ==
    IF Cardinality(DOMAIN enum) < 2 THEN {}
    ELSE {enum[k] \o translationSuffix : k \in
             {e \in DOMAIN enum :
                 Translator_Translate(catalogs, locale,
                                      enum[e] \o translationSuffix).err # ""}}

\* ResolvedOrder
ResolvedOrder(path, dir, sortKeys) == [Path |-> path, Dir |-> dir, SortKeys |-> sortKeys]

\* Direct.OrderColumn
Direct_OrderColumn(path, sortOrder) == ResolvedOrder(path, sortOrder, <<>>)

\* the suffix of the three enum sorters
TranslationSuffix(sorter) ==
    CASE sorter = "EnumOrder" -> <<>>
      [] sorter = "ShortEnumOrder" -> <<".", "s", "h", "o", "r", "t">>
      [] sorter = "LongEnumOrder" -> <<".", "l", "o", "n", "g">>

orderColumnWithSortFunction_NoReverse(catalogs, enums, translationSuffix, path, column, direction, locale) ==
    IF column.Type \notin DOMAIN enums
    THEN {[order |-> ResolvedOrder(<<>>, <<>>, <<>>), err |-> "unknown enum", logged |-> {}]}
    ELSE LET enum == enums[column.Type]
             originalEntries == entriesSortedByKey(enum)
             logged == LoggedWarnings(catalogs, enum, locale, translationSuffix)
             Ok(order) == [order |-> order, err |-> "", logged |-> logged]
         IN  {IF originalEntries = sortedEntries
              THEN Ok(Direct_OrderColumn(path, direction))
              ELSE Ok(ResolvedOrder(path, direction,
                        [i \in DOMAIN sortedEntries |-> sortedEntries[i].EnumKey])) :
              sortedEntries \in
                  entriesSortedByTranslationWithSuffix(
                      catalogs, enum, locale, translationSuffix, FALSE)}

\* EnumSorter.orderColumnWithSortFunction: the results the call may give
orderColumnWithSortFunction(catalogs, enums, translationSuffix, path, column, direction, locale) ==
    IF column.Type \notin DOMAIN enums
    THEN {[order |-> ResolvedOrder(<<>>, <<>>, <<>>), err |-> "unknown enum", logged |-> {}]}
    ELSE LET enum == enums[column.Type]
             originalEntries == entriesSortedByKey(enum)
             logged == LoggedWarnings(catalogs, enum, locale, translationSuffix)
             Ok(order) == [order |-> order, err |-> "", logged |-> logged]
         IN  UNION {
                 IF originalEntries = sortedEntries
                 THEN {Ok(Direct_OrderColumn(path, direction))}
                 ELSE {IF originalEntries = reversedEntries
                       THEN Ok(Direct_OrderColumn(path, Reverse(direction)))
                       ELSE Ok(ResolvedOrder(path, direction,
                                [i \in DOMAIN sortedEntries |-> sortedEntries[i].EnumKey])) :
                       reversedEntries \in
                           entriesSortedByTranslationWithSuffix(
                               catalogs, enum, locale, translationSuffix, TRUE)} :
                 sortedEntries \in
                     entriesSortedByTranslationWithSuffix(
                         catalogs, enum, locale, translationSuffix, FALSE)}

(***************************************************************************)
(* Specification SpecTranslator: translations and enum orders              *)
(***************************************************************************)

\* an enum country of three entries, as config.Enum holds it
W_AT == <<"A", "T">>
W_DE == <<"D", "E">>
W_US == <<"U", "S">>
Key_country_at == <<"e", "n", "u", "m", ".", "c", "o", "u", "n", "t", "r", "y", ".", "a", "t">>
Key_country_de == <<"e", "n", "u", "m", ".", "c", "o", "u", "n", "t", "r", "y", ".", "d", "e">>
Key_country_us == <<"e", "n", "u", "m", ".", "c", "o", "u", "n", "t", "r", "y", ".", "u", "s">>

Enum_country == (W_AT :> Key_country_at) @@ (W_DE :> Key_country_de) @@ (W_US :> Key_country_us)

TestEnums == (T_country :> Enum_country)

\* the texts a catalog may hold for a key, the empty text among them
Texts == {<<>>, <<"A">>, <<"B">>, <<"C">>}

\* the catalogs of language de: every key of the enum missing or with a text
Catalogs ==
    UNION {[present -> Texts] :
           present \in SUBSET {Key_country_at, Key_country_de, Key_country_us}}

\* the column whose order is asked for
Str_company_country == W_company \o US \o T_country

EnumColumns ==
    {Column(Str_company_country, T_country, "EnumFilter", sorter, "") :
        sorter \in {"EnumOrder", "ShortEnumOrder", "LongEnumOrder"}}
        \cup {Column(Str_company_country, T_CompanyClassification, "EnumFilter", "EnumOrder", "")}

SortRequests ==
    {[key |-> key, column |-> column, direction |-> direction, locale |-> locale] :
        key \in {Key_country_de, Key_country_us, W_wat},
        column \in EnumColumns, direction \in {OrderAsc, OrderDesc},
        locale \in {"de", "xx"}}

NoTranslation == [text |-> <<>>, err |-> ""]

NoOrder == [order |-> ResolvedOrder(<<>>, <<>>, <<>>), err |-> "", logged |-> {}]

I18nInit ==
    /\ languages \in {("de" :> catalog) : catalog \in Catalogs}
    /\ sortRequest \in SortRequests
    /\ translation = NoTranslation
    /\ resolvedOrder = NoOrder
    /\ i18nPc = "ready"

\* no translator is loaded
I18nIdle ==
    /\ languages = <<>>
    /\ sortRequest = [key |-> <<>>, column |-> ZeroColumn, direction |-> OrderAsc, locale |-> ""]
    /\ translation = NoTranslation
    /\ resolvedOrder = NoOrder
    /\ i18nPc = "idle"

\* LanguageCatalog.Translate on the catalog of de
TranslateCall ==
    /\ i18nPc = "ready"
    /\ translation' = LanguageCatalog_Translate(languages["de"], sortRequest.key)
    /\ i18nPc' = "translated"
    /\ UNCHANGED <<languages, sortRequest, resolvedOrder, nonI18nVars>>

\* OrderColumn of the sorter the column names
EnumOrderColumnCall ==
    /\ i18nPc = "translated"
    /\ resolvedOrder' \in
           orderColumnWithSortFunction(
               languages, TestEnums, TranslationSuffix(sortRequest.column.Order),
               ResolvePathName(sortRequest.column.PathResolver, sortRequest.column),
               sortRequest.column, sortRequest.direction, sortRequest.locale)
    /\ i18nPc' = "ordered"
    /\ UNCHANGED <<languages, sortRequest, translation, nonI18nVars>>

I18nNext == TranslateCall \/ EnumOrderColumnCall

(***************************************************************************)
(* Specification SpecOrder: OrderColumn on orders with sort keys           *)
(***************************************************************************)

\* fmt.Sprintf("WHEN %v THEN %d") / ("WHEN '%s' THEN %d") of OrderColumnByArray
CaseWhen(value, index) ==
    <<"W", "H", "E", "N", " ">>
        \o (IF value.t = "string" THEN Quote(value.s) ELSE FormatInt(value.n))
        \o <<" ", "T", "H", "E", "N", " ">> \o FormatNat(index)

\* CommonQueryBuilder.OrderColumnByArray
OrderColumnByArray(path, values, direction) ==
    <<"C", "A", "S", "E", " ">> \o path \o <<" ">>
        \o JoinWith([i \in DOMAIN values |-> CaseWhen(values[i], i - 1)], <<" ">>)
        \o <<" ", "E", "L", "S", "E", " ", "-", "1", " ", "E", "N", "D", " ">> \o direction

\* sqlsource.OrderColumn on the answer of the sorter: the CASE form for an
\* answer with sort keys, the direct form without
OrderColumnOfSorter(orderRequest) ==
    IF orderRequest.SortKeys # <<>>
    THEN OrderColumnByArray(orderRequest.Path,
                            [i \in DOMAIN orderRequest.SortKeys |->
                                StringValue(orderRequest.SortKeys[i])],
                            orderRequest.Dir)
    ELSE CommonQueryBuilder_OrderColumn(orderRequest.Path, orderRequest.Dir)

MaxSortKeys == 3

\* a value that is neither a string nor an integer
FloatValue(n) == [t |-> "float64", n |-> n, s |-> <<>>]

UintValue(n) == [t |-> "uint64", n |-> n, s |-> <<>>]

\* the values an order brings as sort keys
SortKeyValues ==
    {StringValue(<<"a">>), StringValue(<<"b">>), IntValue(10), UintValue(9), FloatValue(1)}

SortKeyLists == UNION {[1..n -> SortKeyValues] : n \in 0..MaxSortKeys}

OrderCalls ==
    {[path |-> Str_organization_name, column |-> Selected(Str_organization_name),
      order |-> NewOrder(Str_organization_name, direction, sortKeys)] :
        direction \in {OrderAsc, OrderDesc}, sortKeys \in SortKeyLists}

NotCalled == [panic |-> FALSE, text |-> <<>>]

OrderInit ==
    /\ orderCall \in OrderCalls
    /\ orderText = NotCalled

\* OrderColumn is not called
OrderIdle ==
    /\ orderCall = [path |-> <<>>, column |-> ZeroColumn, order |-> NewOrder(<<>>, OrderAsc, <<>>)]
    /\ orderText = NotCalled

\* sqlsource.OrderColumn on the order
OrderColumnCall ==
    /\ orderCall.path # <<>>
    /\ orderText = NotCalled
    /\ orderText' = OrderColumn(orderCall.path, orderCall.column, orderCall.order)
    /\ UNCHANGED <<orderCall, nonOrderVars>>

OrderNext == OrderColumnCall

(***************************************************************************)
(* Specification SpecFetch: Connector.FetchData and its count goroutines   *)
(***************************************************************************)

\* adviseDeferredLoading from order i on
RECURSIVE AdviseFrom(_, _, _)
AdviseFrom(orders, schema, i) ==
    IF i > Len(orders) THEN FALSE
    ELSE IF Len(Split(orders[i].path)) > 2 THEN TRUE
    ELSE LET resolvedColumn == SchemaColumn(schema, orders[i].path)
         IN  IF resolvedColumn.err # "" THEN FALSE
             ELSE IF resolvedColumn.column.PathResolver = "SizePathResolver" THEN TRUE
             ELSE AdviseFrom(orders, schema, i + 1)

\* adviseDeferredLoading (the columns are not read)
adviseDeferredLoading(columns, orders, schema) == AdviseFrom(orders, schema, 1)

\* NewSimpleFilterGroup
NewSimpleFilterGroup(path, filterMode, values) ==
    NewFilterGroup(path, [i \in DOMAIN values |-> Filter(filterMode, values[i])])

\* the goroutines of one FetchData call: the call itself and the two counts
Tasks == {"data", "total", "filtered"}

\* the four values FetchData returns; result is nil or a list of rows, each
\* row named by its primary key
Return(result, totalCount, filteredCount, err) ==
    [returned |-> TRUE, result |-> result, totalCount |-> totalCount,
     filteredCount |-> filteredCount, err |-> err]

NilResult == [nil |-> TRUE, rows |-> <<>>]

Result(rows) == [nil |-> FALSE, rows |-> rows]

NotReturned ==
    [returned |-> FALSE, result |-> NilResult, totalCount |-> 0, filteredCount |-> 0,
     err |-> ""]

\* the arguments of the full-columns fetchData, the rows it read
DataFetch(deferred, filters, orders, limit, offset) ==
    [deferred |-> deferred, filters |-> filters, orders |-> orders, limit |-> limit,
     offset |-> offset, outcome |-> NoQuery, bound |-> <<>>, rows |-> <<>>]

NoDataFetch == [DataFetch(FALSE, <<>>, <<>>, 0, 0) EXCEPT !.outcome.status = "unset"]

\* resolveJoinString calls ResolvePath, which reads and writes joinPathCache
AccessesCache(columns, orders, filters) ==
    calculatePathsForJoins(columns, orders, filters) # <<>>

\* primaryKeyPath of FetchData
PrimaryKeyPath ==
    PkPath_Descriptor(OrganizationSchema.originalSchema.Entity,
                      ResolvePrimaryKey(fetchCall.caches,
                                        OrganizationSchema.originalSchema.Entity)[1])

\* the one column the primary-key query selects
PrimaryKeyColumns == <<[ZeroColumn EXCEPT !.Path = PrimaryKeyPath]>>

\* the process has ended: log.Fatal, a panic, or the runtime's fatal error
Crashed == \E t \in Tasks : taskPc[t] \in {"fatal", "panicked"}

W_k1 == <<"k", "1">>
W_k2 == <<"k", "2">>
W_k3 == <<"k", "3">>

\* the rows of organization, by primary key
TotalRows == {W_k1, W_k2, W_k3}

\* the rows the filters of a request may match
MatchingRows == {W_k1, W_k2}

\* what the database answers: the count of all rows, the count of the rows the
\* filters match, the keys the primary-key query gives under the request's
\* filters, orders and limit, and whether it answers the count queries with
\* an error
DatabaseAnswers ==
    UNION {{[total |-> Cardinality(TotalRows), filtered |-> Cardinality(matching),
             keys |-> keys, countError |-> countError] :
                keys \in IterationOrders(matching), countError \in BOOLEAN} :
           matching \in SUBSET MatchingRows}

Order_assignedPerson_name == NewOrder(Str_organization_assignedPerson_name, OrderAsc, <<>>)

Order_persons == NewOrder(Str_organization_persons, OrderDesc, <<>>)

Order_name == NewOrder(Str_organization_name, OrderAsc, <<>>)

Order_wat == NewOrder(Str_organization_wat, OrderAsc, <<>>)

\* no order, or one order that advises deferred loading
SingleOrders == {<<>>, <<Order_assignedPerson_name>>, <<Order_persons>>}

\* orders on a column of the entity and on a path the schema does not have,
\* alone and before an order on a joined path or on a size path
MixedOrders ==
    {<<Order_name>>, <<Order_wat>>, <<Order_name, Order_assignedPerson_name>>,
     <<Order_name, Order_persons>>, <<Order_wat, Order_assignedPerson_name>>}

\* a call of FetchData and the database it meets
FetchCall(columns, filters, orders, offset, answers) ==
    [request |-> Request(columns, filters, orders, 25, "en"), offset |-> offset,
     caches |-> Caches(W_uuid, TRUE), database |-> answers]

\* the database answers its count queries
Answering == {answers \in DatabaseAnswers : ~answers.countError}

\* calls with and without an order that advises deferred loading, with and
\* without a filter on a joined path, with and without an offset
FetchCalls ==
    {FetchCall(<<Selected(Str_organization_name)>>, f, o, 0, answers) :
        f \in {<<>>, <<Group_organizationKey_1>>, <<Group_personKey>>},
        o \in SingleOrders, answers \in DatabaseAnswers}
    \cup {FetchCall(<<Selected(Str_organization_assignedPerson_name)>>, <<>>, o, 0, answers) :
        o \in SingleOrders, answers \in Answering}
    \cup {FetchCall(<<Selected(Str_organization_name)>>, f, o, 50, answers) :
        f \in {<<>>, <<Group_organizationKey_1>>}, o \in SingleOrders,
        answers \in Answering}
    \cup {FetchCall(<<Selected(Str_organization_name)>>, <<>>, o, 0, answers) :
        o \in MixedOrders, answers \in Answering}

QueryArguments_WithOffset(limit, offset) ==
    IF limit > 0 THEN <<limit, offset>> ELSE <<>>

\* the parameters fetchData binds when it runs the prepared query
QueryArguments(limit, offset) == IF limit > 0 THEN <<limit>> ELSE <<>>

\* the primary-key query was not run
NoKeyFetch == [outcome |-> NoQuery, bound |-> <<>>]

FetchInit ==
    /\ fetchCall \in FetchCalls
    /\ keyFetch = NoKeyFetch
    /\ resolverCache = <<>>
    /\ taskPc = [t \in Tasks |-> IF t = "data" THEN "called" ELSE "none"]
    /\ resolving = {}
    /\ scannedKeys = <<>>
    /\ countChannels = [t \in {"total", "filtered"} |-> <<>>]
    /\ dataFetch = NoDataFetch
    /\ fetched = NotReturned

\* FetchData is not called
FetchIdle ==
    /\ fetchCall = [request |-> Request(<<>>, <<>>, <<>>, 0, ""), offset |-> 0,
                    caches |-> Caches(W_uuid, TRUE),
                    database |-> [total |-> 0, filtered |-> 0, keys |-> <<>>,
                                  countError |-> FALSE]]
    /\ keyFetch = NoKeyFetch
    /\ resolverCache = <<>>
    /\ taskPc = [t \in Tasks |-> "none"]
    /\ resolving = {}
    /\ scannedKeys = <<>>
    /\ countChannels = [t \in {"total", "filtered"} |-> <<>>]
    /\ dataFetch = NoDataFetch
    /\ fetched = NotReturned

\* FetchData up to the decision on deferred loading: the count goroutines
\* are started, the filtered one only if there are filters
FetchDataStart ==
    /\ taskPc["data"] = "called"
    /\ LET deferred == adviseDeferredLoading(fetchCall.request.columns,
                                             fetchCall.request.orders, OrganizationSchema)
       IN  /\ taskPc' = [t \in Tasks |->
                  CASE t = "data" -> IF deferred THEN "keys" ELSE "fetch"
                    [] t = "total" -> "count"
                    [] t = "filtered" ->
                           IF Len(fetchCall.request.filters) > 0 THEN "count" ELSE "none"]
           /\ dataFetch' = IF deferred THEN dataFetch
                           ELSE DataFetch(FALSE, fetchCall.request.filters,
                                          fetchCall.request.orders,
                                          fetchCall.request.limit, fetchCall.offset)
    /\ UNCHANGED <<keyFetch, fetchCall, resolverCache, resolving, scannedKeys, countChannels,
                   fetched, nonFetchVars>>

\* the filters a count goroutine is started with
CountFilters(t) == IF t = "total" THEN <<>> ELSE fetchCall.request.filters

\* countQuery: the goroutine starts resolving its joins
CountQueryResolve(t) ==
    /\ ~Crashed
    /\ taskPc[t] = "count"
    /\ taskPc' = [taskPc EXCEPT ![t] = "counting"]
    /\ resolving' = IF AccessesCache(<<>>, <<>>, CountFilters(t))
                    THEN resolving \cup {t} ELSE resolving
    /\ UNCHANGED <<keyFetch, fetchCall, resolverCache, scannedKeys, countChannels, dataFetch,
                   fetched, nonFetchVars>>

\* countQuery from the joins on: log.Fatal on a join that fails, a panic on a
\* filter that fails, otherwise the count is sent; an error of the database
\* is logged and the count, still 0, is sent
CountQuerySend(t) ==
    /\ ~Crashed
    /\ taskPc[t] = "counting"
    /\ \E joined \in resolveJoinString(<<>>, <<>>, OrganizationSchema, CountFilters(t),
                                       resolverCache, fetchCall.caches, ConnectorSchemas),
          where \in filterString(CountFilters(t), OrganizationSchema) :
           /\ resolverCache' = joined.cache
           /\ IF joined.err # ""
              THEN /\ taskPc' = [taskPc EXCEPT ![t] = "fatal"]
                   /\ UNCHANGED countChannels
              ELSE IF where.err # ""
              THEN /\ taskPc' = [taskPc EXCEPT ![t] = "panicked"]
                   /\ UNCHANGED countChannels
              ELSE /\ taskPc' = [taskPc EXCEPT ![t] = "sent"]
                   /\ countChannels' =
                          [countChannels EXCEPT ![t] =
                              Append(@, IF fetchCall.database.countError THEN 0
                                        ELSE IF t = "total" THEN fetchCall.database.total
                                        ELSE fetchCall.database.filtered)]
    /\ resolving' = resolving \ {t}
    /\ UNCHANGED <<keyFetch, fetchCall, scannedKeys, dataFetch, fetched, nonFetchVars>>

\* what a call of fetchData by FetchData leaves behind when it does not give rows
FetchFailed(outcome) ==
    IF outcome.status = "error"
    THEN /\ taskPc' = [taskPc EXCEPT !["data"] = "returned"]
         /\ fetched' = Return(NilResult, 0, 0, outcome.err)
    ELSE /\ taskPc' = [taskPc EXCEPT !["data"] = IF outcome.status = "fatal" THEN "fatal"
                                                  ELSE "panicked"]
         /\ UNCHANGED fetched

\* deferred loading: fetchData for the primary keys starts resolving its joins
KeyFetchResolve ==
    /\ ~Crashed
    /\ taskPc["data"] = "keys"
    /\ taskPc' = [taskPc EXCEPT !["data"] = "keysResolving"]
    /\ resolving' = IF AccessesCache(PrimaryKeyColumns, fetchCall.request.orders,
                                     fetchCall.request.filters)
                    THEN resolving \cup {"data"} ELSE resolving
    /\ UNCHANGED <<keyFetch, fetchCall, resolverCache, scannedKeys, countChannels, dataFetch,
                   fetched, nonFetchVars>>

\* deferred loading: the primary-key query is run and its keys are scanned;
\* the filters and orders are replaced by the keys, limit and offset by 0
KeyFetchScan ==
    /\ ~Crashed
    /\ taskPc["data"] = "keysResolving"
    /\ \E outcome \in fetchData(PrimaryKeyColumns, fetchCall.request.filters,
                                fetchCall.request.orders, OrganizationSchema,
                                fetchCall.request.limit, fetchCall.request.locale,
                                resolverCache, fetchCall.caches, ConnectorSchemas) :
           /\ resolverCache' = outcome.cache
           /\ keyFetch' = [outcome |-> [outcome EXCEPT !.cache = <<>>],
                           bound |-> IF outcome.status = "ok"
                                     THEN QueryArguments(fetchCall.request.limit,
                                                         fetchCall.offset)
                                     ELSE <<>>]
           /\ IF outcome.status # "ok"
              THEN /\ FetchFailed(outcome)
                   /\ UNCHANGED <<scannedKeys, dataFetch>>
              ELSE LET keys == [i \in DOMAIN fetchCall.database.keys |->
                                   StringValue(fetchCall.database.keys[i])]
                   IN  /\ scannedKeys' = keys
                       /\ UNCHANGED fetched
                       /\ IF Len(keys) = 0
                          THEN /\ taskPc' = [taskPc EXCEPT !["data"] = "shortCircuit"]
                               /\ UNCHANGED dataFetch
                          ELSE /\ taskPc' = [taskPc EXCEPT !["data"] = "fetch"]
                               /\ dataFetch' =
                                      DataFetch(TRUE,
                                          <<NewSimpleFilterGroup(PrimaryKeyPath,
                                                                 FilterEquals, keys)>>,
                                          <<NewOrder(PrimaryKeyPath, OrderAsc, keys)>>,
                                          0, 0)
    /\ resolving' = resolving \ {"data"}
    /\ UNCHANGED <<fetchCall, countChannels, nonFetchVars>>

\* deferred loading without keys: the total count is awaited and the empty
\* result returned
ShortCircuitReturn ==
    /\ ~Crashed
    /\ taskPc["data"] = "shortCircuit"
    /\ countChannels["total"] # <<>>
    /\ LET totalCount == Head(countChannels["total"])
       IN  fetched' = Return(Result(<<>>), 0, totalCount, "")
    /\ countChannels' = [countChannels EXCEPT !["total"] = Tail(@)]
    /\ taskPc' = [taskPc EXCEPT !["data"] = "returned"]
    /\ UNCHANGED <<keyFetch, fetchCall, resolverCache, resolving, scannedKeys, dataFetch,
                   nonFetchVars>>

\* fetchData for the requested columns starts resolving its joins
DataFetchResolve ==
    /\ ~Crashed
    /\ taskPc["data"] = "fetch"
    /\ taskPc' = [taskPc EXCEPT !["data"] = "fetching"]
    /\ resolving' = IF AccessesCache(fetchCall.request.columns, dataFetch.orders,
                                     dataFetch.filters)
                    THEN resolving \cup {"data"} ELSE resolving
    /\ UNCHANGED <<keyFetch, fetchCall, resolverCache, scannedKeys, countChannels, dataFetch,
                   fetched, nonFetchVars>>

\* the rows the database gives for the full-columns query: with deferred
\* loading the rows of the keys in the order of the ORDER BY, which is the
\* key column ascending; otherwise the rows the request's filters, orders and
\* limit give
RowsRead ==
    IF dataFetch.deferred
    THEN SortStrings({scannedKeys[i].s : i \in DOMAIN scannedKeys})
    ELSE fetchCall.database.keys

\* the full-columns query is run and its rows are read
DataFetchScan ==
    /\ ~Crashed
    /\ taskPc["data"] = "fetching"
    /\ \E outcome \in fetchData(fetchCall.request.columns, dataFetch.filters,
                                dataFetch.orders, OrganizationSchema, dataFetch.limit,
                                fetchCall.request.locale, resolverCache,
                                fetchCall.caches, ConnectorSchemas) :
           /\ resolverCache' = outcome.cache
           /\ dataFetch' = [dataFetch EXCEPT !.outcome = [outcome EXCEPT !.cache = <<>>],
                                             !.bound = IF outcome.status = "ok"
                                                       THEN QueryArguments(dataFetch.limit,
                                                                           dataFetch.offset)
                                                       ELSE <<>>,
                                             !.rows = IF outcome.status = "ok"
                                                      THEN RowsRead ELSE <<>>]
           /\ IF outcome.status # "ok"
              THEN FetchFailed(outcome)
              ELSE /\ taskPc' = [taskPc EXCEPT !["data"] = "waiting"]
                   /\ UNCHANGED fetched
    /\ resolving' = resolving \ {"data"}
    /\ UNCHANGED <<keyFetch, fetchCall, scannedKeys, countChannels, nonFetchVars>>

\* the counts are awaited and the rows returned
WaitAndReturn ==
    /\ ~Crashed
    /\ taskPc["data"] = "waiting"
    /\ countChannels["total"] # <<>>
    /\ taskPc["filtered"] # "none" => countChannels["filtered"] # <<>>
    /\ LET totalCount == Head(countChannels["total"])
           filteredCount == IF taskPc["filtered"] # "none"
                            THEN Head(countChannels["filtered"])
                            ELSE totalCount
       IN  fetched' = Return(Result(dataFetch.rows), totalCount, filteredCount, "")
    /\ countChannels' = [t \in {"total", "filtered"} |-> <<>>]
    /\ taskPc' = [taskPc EXCEPT !["data"] = "returned"]
    /\ UNCHANGED <<keyFetch, fetchCall, resolverCache, resolving, scannedKeys, dataFetch,
                   nonFetchVars>>

\* two goroutines are in the cache map at once: the runtime may end the
\* process with its fatal error on concurrent map access
ConcurrentMapAccess ==
    /\ ~Crashed
    /\ Cardinality(resolving) > 1
    /\ \E t \in resolving : taskPc' = [taskPc EXCEPT ![t] = "fatal"]
    /\ UNCHANGED <<keyFetch, fetchCall, resolverCache, resolving, scannedKeys, countChannels,
                   dataFetch, fetched, nonFetchVars>>

FetchNext ==
    \/ FetchDataStart
    \/ \E t \in {"total", "filtered"} : CountQueryResolve(t) \/ CountQuerySend(t)
    \/ KeyFetchResolve
    \/ KeyFetchScan
    \/ ShortCircuitReturn
    \/ DataFetchResolve
    \/ DataFetchScan
    \/ WaitAndReturn
    \/ ConcurrentMapAccess

(***************************************************************************)
(* Specification SpecJoin: the first loop of resolveJoinString             *)
(***************************************************************************)

W_membership == <<"m", "e", "m", "b", "e", "r", "s", "h", "i", "p">>

Str_organization_person == W_organization \o US \o W_person

Str_person_uuid == W_person \o US \o W_uuid

\* the foreign keys of a database in which the persons of an organization
\* are reached over a link table: organization.person_uuid points to the
\* link table, the link table's person_uuid to person, and a person's
\* supervisor_uuid and deputy_uuid to person
LinkedForeignKeys(linkTable) ==
    (TableColumn(W_organization, Str_person_uuid)
        :> TableColumn(linkTable, W_organization \o US \o W_uuid))
    @@ (TableColumn(linkTable, Str_person_uuid) :> TableColumn(W_person, Str_person_key))
    @@ (TableColumn(W_person, W_supervisor \o US \o W_uuid)
        :> TableColumn(W_person, Str_person_key))
    @@ (TableColumn(W_person, W_deputy \o US \o W_uuid)
        :> TableColumn(W_person, Str_person_key))

\* the link table is called membership, or organization_person
LinkTables == {W_membership, Str_organization_person}

\* paths of the organization schema over the link: the person of the
\* organization, the person behind the link, that person's supervisor and
\* deputy
JoinedPaths ==
    {W_organization \o US \o W_name,
     Str_organization_person \o US \o W_name,
     Str_organization_person \o US \o W_person \o US \o W_name,
     Str_organization_person \o US \o W_person \o US \o W_supervisor \o US \o W_name,
     Str_organization_person \o US \o W_person \o US \o W_deputy \o US \o W_name,
     Str_organization_person \o US \o W_person \o US \o W_supervisor \o US \o W_deputy
         \o US \o W_name}

\* the columns of a request, of which calculatePathsForJoins reads the paths
PathColumns(paths) ==
    LET pathList == SortStrings(paths)
    IN  [i \in DOMAIN pathList |-> [ZeroColumn EXCEPT !.Path = pathList[i]]]

\* the join paths resolveJoinString plans for requests of one or two columns
PlannedJoinPaths ==
    {calculatePathsForJoins(PathColumns(paths), <<>>, <<>>) :
        paths \in {selected \in SUBSET JoinedPaths : Cardinality(selected) \in 1..2}}

\* joinPc after log.Fatal and after an error was returned
Fatal == 0 - 1

Failure == 0 - 2

JoinInit ==
    /\ \E planned \in PlannedJoinPaths, linkTable \in LinkTables :
           joinCall = [paths |-> planned, foreignKeyMap |-> LinkedForeignKeys(linkTable)]
    /\ aliasCache = <<>>
    /\ emitted = <<>>
    /\ joinPc = 1

\* resolveJoinString is not called
JoinIdle ==
    /\ joinCall = [paths |-> <<>>, foreignKeyMap |-> <<>>]
    /\ aliasCache = <<>>
    /\ emitted = <<>>
    /\ joinPc = 0

\* one turn of the loop over the planned join paths: ResolvePath on the next
\* path; an error ends the loop, log.Fatal ends the process
ResolvePathCall ==
    /\ joinPc \in DOMAIN joinCall.paths
    /\ \E r \in ResolvePath(aliasCache, joinCall.foreignKeyMap, joinCall.paths[joinPc]) :
           /\ aliasCache' = r.cache
           /\ IF r.err = ""
              THEN /\ emitted' = Append(emitted, r.join)
                   /\ joinPc' = joinPc + 1
              ELSE /\ emitted' = emitted
                   /\ joinPc' = (IF r.err = "fatal" THEN Fatal ELSE Failure)
    /\ UNCHANGED <<joinCall, nonJoinVars>>

\* the next request: resolveJoinString is called again, on the same resolver
NextRequestCall ==
    /\ joinPc = Len(joinCall.paths) + 1
    /\ \E planned \in PlannedJoinPaths :
           /\ planned # joinCall.paths
           /\ joinCall' = [joinCall EXCEPT !.paths = planned]
    /\ emitted' = <<>>
    /\ joinPc' = 1
    /\ UNCHANGED <<aliasCache, nonJoinVars>>

JoinNext == ResolvePathCall \/ NextRequestCall

(***************************************************************************)
(* Specifications                                                          *)
(***************************************************************************)

\* the conversions of utils.go applied to one descriptor
InitPath ==
    PathInit /\ FilterIdle /\ SchemaIdle /\ ConnIdle /\ I18nIdle /\ OrderIdle /\ FetchIdle
        /\ JoinIdle

SpecPath == InitPath /\ [][PathNext]_vars

\* FilterColumn applied to the filter groups of one path
InitFilter ==
    FilterInit /\ PathIdle /\ SchemaIdle /\ ConnIdle /\ I18nIdle /\ OrderIdle /\ FetchIdle
        /\ JoinIdle

SpecFilter == InitFilter /\ [][FilterNext]_vars

InitRegexFilter ==
    RegexFilterInit /\ PathIdle /\ SchemaIdle /\ ConnIdle /\ I18nIdle /\ OrderIdle
        /\ FetchIdle /\ JoinIdle

SpecRegexFilter == InitRegexFilter /\ [][FilterNext]_vars

\* NewSchemaMapperFromFolder: every schema of the folder is resolved
InitSchema ==
    SchemaInit /\ PathIdle /\ FilterIdle /\ ConnIdle /\ I18nIdle /\ OrderIdle /\ FetchIdle
        /\ JoinIdle

SpecSchema == InitSchema /\ [][SchemaNext]_vars

\* requests are validated and, when accepted, fetched
InitConnector ==
    ConnInit /\ PathIdle /\ FilterIdle /\ SchemaIdle /\ I18nIdle /\ OrderIdle /\ FetchIdle
        /\ JoinIdle

SpecConnector == InitConnector /\ [][ConnNext]_vars

\* keys are translated and enum columns ordered under one translator
InitTranslator ==
    I18nInit /\ PathIdle /\ FilterIdle /\ SchemaIdle /\ ConnIdle /\ OrderIdle /\ FetchIdle
        /\ JoinIdle

SpecTranslator == InitTranslator /\ [][I18nNext]_vars

\* orders with sort keys are turned into their ORDER BY text
InitOrder ==
    OrderInit /\ PathIdle /\ FilterIdle /\ SchemaIdle /\ ConnIdle /\ I18nIdle /\ FetchIdle
        /\ JoinIdle

SpecOrder == InitOrder /\ [][OrderNext]_vars

\* one FetchData call runs with its count goroutines
InitFetch ==
    FetchInit /\ PathIdle /\ FilterIdle /\ SchemaIdle /\ ConnIdle /\ I18nIdle /\ OrderIdle
        /\ JoinIdle

SpecFetch == InitFetch /\ [][FetchNext]_vars

\* the planned join paths of requests are resolved one after the other
InitJoin ==
    JoinInit /\ PathIdle /\ FilterIdle /\ SchemaIdle /\ ConnIdle /\ I18nIdle /\ OrderIdle
        /\ FetchIdle

SpecJoin == InitJoin /\ [][JoinNext]_vars

(***************************************************************************)
(* C1                                                                      *)
(***************************************************************************)

\* the values the filtered column takes in the rows of the table
RowValues == {v.n + d : v \in RequestFilterValues, d \in {-1, 0, 1}}

\* the row value stands in the relation the operator names to the literal
Compares(op, row, literal) ==
    LET n == ParseIntOrZero(literal)
    IN  CASE op = OperatorEqual -> row = n
          [] op = OperatorNotEqual -> row # n
          [] op = OperatorGreater -> row > n
          [] op = OperatorGreaterEquals -> row >= n
          [] op = OperatorLesser -> row < n
          [] op = OperatorLesserEquals -> row <= n
          [] OTHER -> FALSE

ItemHolds(item, row) ==
    CASE item.kind = "cmp" -> Compares(item.op, row, item.lits[1])
      [] item.kind = "in" ->
            \E i \in DOMAIN item.lits : row = ParseIntOrZero(item.lits[i])
      [] item.kind = "notin" ->
            \A i \in DOMAIN item.lits : row # ParseIntOrZero(item.lits[i])
      [] OTHER -> FALSE

RECURSIVE SplitItems(_, _, _)
\* the parts of a predicate between the occurrences of one connective
SplitItems(items, word, cur) ==
    IF Len(items) = 0 THEN <<cur>>
    ELSE IF Head(items).kind = word
         THEN <<cur>> \o SplitItems(Tail(items), word, <<>>)
         ELSE SplitItems(Tail(items), word, Append(cur, Head(items)))

\* The predicate read as SQL reads it: AND binds tighter than OR, so it is
\* a disjunction of conjunctions of comparisons.
PredicateHolds(items, row) ==
    LET disjuncts == SplitItems(items, "OR", <<>>)
    IN  \E d \in DOMAIN disjuncts :
            LET conjuncts == SplitItems(disjuncts[d], "AND", <<>>)
            IN  \A c \in DOMAIN conjuncts :
                    \A a \in DOMAIN conjuncts[c] : ItemHolds(conjuncts[c][a], row)

\* match(f): the row satisfies the single filter (mode, value)
FilterMatches(f, row) ==
    CASE f.mode = FilterEquals -> row = f.value.n
      [] f.mode = FilterNotEquals -> row # f.value.n
      [] f.mode = FilterGreater -> row > f.value.n
      [] f.mode = FilterGreaterEquals -> row >= f.value.n
      [] f.mode = FilterLesser -> row < f.value.n
      [] f.mode = FilterLesserEquals -> row <= f.value.n
      [] OTHER -> FALSE

\* C1: the rows matched by the WHERE predicate compiled for one path are
\* exactly the intersection over the path's filter groups of the union over
\* each group's filters of the rows matching that filter.
CE_C1_IntersectionOfUnions ==
    (filterPc = "done" /\ whereResult.err = "") =>
        {r \in RowValues : PredicateHolds(whereResult.items, r)}
            = {r \in RowValues :
                \A g \in DOMAIN filterGroups :
                    \E f \in DOMAIN filterGroups[g] :
                        FilterMatches(filterGroups[g][f], r)}

(***************************************************************************)
(* C10                                                                     *)
(***************************************************************************)

\* company.company_key
Str_company_company_key == W_company \o <<".">> \o W_company \o US \o W_key

\* the values of a group's filters of one mode, in filter order
ValuesOfMode(group, mode) ==
    LET ofMode == SelectSeq(group, LAMBDA f : f.mode = mode)
    IN  [i \in DOMAIN ofMode |-> ofMode[i].value.n]

\* what the claim says a group's filters of one mode compile to: nothing for
\* no filter, "path op literal" for one, "path IN (...)" / "path NOT IN (...)"
\* with the decimal literals in filter order for several
ExpectedText(path, group, mode, op, listWord) ==
    LET values == ValuesOfMode(group, mode)
        literals == [i \in DOMAIN values |-> <<Digits[values[i] + 1]>>]
    IN  IF Len(values) = 1 THEN path \o SP \o op \o SP \o literals[1]
        ELSE path \o SP \o listWord \o <<" ", "(">>
                 \o JoinWith(literals, <<",">>) \o <<")">>

\* the texts of the OR-joined parts of the g-th AND-joined part of a predicate
BucketTexts(items, g) ==
    LET parts == SplitItems(SplitItems(items, "AND", <<>>)[g], "OR", <<>>)
    IN  {RenderItems(parts[k]) : k \in DOMAIN parts}

RECURSIVE LowerRuns(_, _)
\* each maximal run of upper-case letters replaced by "_" and the run in
\* lower case, every other character kept
LowerRuns(s, i) ==
    IF i > Len(s) THEN <<>>
    ELSE IF IsUpper(s[i]) /\ (i = 1 \/ ~IsUpper(s[i - 1]))
         THEN <<"_", ToLowerChar(s[i])>> \o LowerRuns(s, i + 1)
         ELSE <<ToLowerChar(s[i])>> \o LowerRuns(s, i + 1)

\* C9: DescriptorToIdentifier replaces each maximal run of upper-case letters
\* (also a run of several capitals, also a capital that ends the string) by
\* "_" and the run in lower case and keeps every other character; an input
\* without upper-case letters comes back unchanged.
CE_C9_RunsLowered ==
    pathPc # "start" =>
        /\ identifier = LowerRuns(descriptor, 1)
        /\ ((\A i \in DOMAIN descriptor : ~IsUpper(descriptor[i]))
                => identifier = descriptor)

(***************************************************************************)
(* C8                                                                      *)
(***************************************************************************)

\* x is made of ASCII letters and "_", with no leading "_" and no "__"
RoundTripDomain(x) ==
    /\ \A i \in DOMAIN x : IsLetter(x[i]) \/ x[i] = "_"
    /\ (Len(x) > 0 => x[1] # "_")
    /\ \A i \in 1..(Len(x) - 1) : ~(x[i] = "_" /\ x[i + 1] = "_")

\* x is made of ASCII letters only and every upper-case letter is directly
\* followed by a lower-case letter
SingleCapitals(x) ==
    /\ \A i \in DOMAIN x : IsLetter(x[i])
    /\ \A i \in DOMAIN x :
          IsUpper(x[i]) => (i < Len(x) /\ IsLower(x[i + 1]))

\* C8 as stated: IdentifierToDescriptor(DescriptorToIdentifier(x)) = x for
\* every x of ASCII letters and "_" with no leading and no doubled "_".
CE_C8_RoundTrip ==
    (pathPc = "done" /\ RoundTripDomain(descriptor)) => roundTrip = descriptor

\* C8 amended: the round trip is the identity for every x made of ASCII
\* letters only in which every upper-case letter is directly followed by a
\* lower-case letter (one segment in camel case, such as personKey).
T_C8_RoundTripSingleSegment ==
    (pathPc = "done" /\ SingleCapitals(descriptor)) => roundTrip = descriptor

W_C8_RoundTripSingleSegment ==
    /\ pathPc = "done"
    /\ descriptor = Str_personKey
    /\ identifier = Str_person_key
    /\ roundTrip = descriptor

(***************************************************************************)
(* C3: a resolved schema is its own columns followed, extension by         *)
(* extension, by the resolved columns of the extension's schema with their *)
(* first path segment replaced by the substitution prefix                  *)
(***************************************************************************)

Paths(columns) == [i \in DOMAIN columns |-> columns[i].Path]

\* the path with the part before its first "_" replaced by prefix
ReplaceFirstSegment(path, prefix) ==
    prefix \o US \o SubSeq(path, IndexUnderscorePlusOne(path) + 1, Len(path))

\* the incoming prefix if non-empty, else the entity; then "_" and the key
SubstitutionPrefix(schema, extension, prefix) ==
    (IF prefix # <<>> THEN prefix ELSE schema.Entity)
        \o (IF extension.Key # <<>> THEN US \o extension.Key ELSE <<>>)

RECURSIVE Flatten(_)
Flatten(lists) == IF lists = <<>> THEN <<>> ELSE Head(lists) \o Flatten(Tail(lists))

\* the columns the claim describes for schema under an incoming prefix
DescribedColumns(schema, prefix) ==
    [i \in DOMAIN schema.Columns |->
        IF prefix = <<>> THEN schema.Columns[i]
        ELSE [schema.Columns[i] EXCEPT
                 !.Path = ReplaceFirstSegment(schema.Columns[i].Path, prefix)]]
    \o Flatten([e \in DOMAIN schema.Extensions |->
           LET extension == schema.Extensions[e]
               target == resolveColumnsWithPrefix(schemas[extension.Table],
                                                  schemas, <<>>).columns
           IN  [i \in DOMAIN target |->
                   [target[i] EXCEPT
                       !.Path = ReplaceFirstSegment(
                                    target[i].Path,
                                    SubstitutionPrefix(schema, extension, prefix))]]])

IncomingPrefixes == {<<>>, <<"p">>, <<"p", "_", "q">>}

\* C3: once a table is resolved, resolveColumnsWithPrefix gives for it, under
\* no prefix and under every incoming prefix, its own columns (unchanged
\* under no prefix) followed for each extension in declared order by the
\* resolved columns of the extension's schema with the part of the path
\* before the first "_" replaced by the substitution prefix; the mapper
\* stores exactly these columns for a schema without exclusions; companies
\* resolves to company_companyKey, company_name, company_uuid,
\* company_createDateUtc and organization holds
\* organization_assignedPerson_personKey.
T_C3_ExtensionPrefixSubstitution ==
    \A table \in DOMAIN resolvedSchemas :
        /\ \A prefix \in IncomingPrefixes :
               resolveColumnsWithPrefix(schemas[table], schemas, prefix)
                   = ResolveOk(DescribedColumns(schemas[table], prefix))
        /\ schemas[table].Exclusions = <<>> =>
               resolvedSchemas[table].columns = DescribedColumns(schemas[table], <<>>)
        /\ table = "companies" =>
               Paths(resolvedSchemas[table].columns)
                   = <<Str_company_companyKey, Str_company_name,
                       Str_company_uuid, Str_company_createDateUtc>>
        /\ table = "organization" =>
               Paths(resolvedSchemas[table].columns)
                   = <<Str_organization_name,
                       Str_organization_assignedPerson_personKey>>

\* a schema with a keyed extension to a schema that has a keyed extension of
\* its own is resolved, and so are companies and organization
W_C3_ExtensionPrefixSubstitution ==
    \/ /\ "x" \in DOMAIN resolvedSchemas
       /\ schemas["x"].Columns # <<>>
       /\ Len(schemas["x"].Extensions) = 2
       /\ schemas["x"].Extensions[2].Key = <<"k">>
       /\ schemas["y"].Extensions # <<>>
       /\ schemas["y"].Extensions[1].Key = <<"k">>
       /\ Len(resolvedSchemas["x"].columns) > 4
    \/ /\ {"companies", "organization"} \subseteq DOMAIN resolvedSchemas
       /\ Len(schemas["subfolder/abstract_entity"].Columns) = 3

(***************************************************************************)
(* C4: after the exclusions the columns are the accumulated columns whose  *)
(* path starts with no exclusion                                           *)
(***************************************************************************)

Excluded(schema, path) ==
    \E e \in DOMAIN schema.Exclusions : HasPrefix(path, schema.Exclusions[e])

\* C4: the columns stored for a resolved schema are exactly the accumulated
\* own and extension columns whose path starts with no exclusion of the
\* schema, in the same order and nothing else.
CE_C4_ExclusionSubsequence ==
    \A table \in DOMAIN resolvedSchemas :
        resolvedSchemas[table].columns
            = SelectSeq(resolveColumnsWithPrefix(schemas[table], schemas, <<>>).columns,
                        LAMBDA c : ~Excluded(schemas[table], c.Path))


(***************************************************************************)
(* C5: ValidateRequest answers with an error exactly for the listed        *)
(* requests and touches nothing                                            *)
(***************************************************************************)

\* the paths of the resolved schema
SchemaPaths(schema) == {schema.columns[i].Path : i \in DOMAIN schema.columns}

\* one of the conditions under which a request is to be refused holds
Refused(req, schema) ==
    \/ req.columns = <<>>
    \/ req.locale \notin Languages
    \/ \E i \in DOMAIN req.columns :
           \/ req.columns[i].Path \notin SchemaPaths(schema)
           \/ req.columns[i].PathResolver \notin Resolvers
           \/ req.columns[i].Filter \notin Filters
           \/ req.columns[i].Order \notin Sorters
    \/ \E i \in DOMAIN req.filters : req.filters[i].path \notin SchemaPaths(schema)
    \/ \E i \in DOMAIN req.orders : req.orders[i].path \notin SchemaPaths(schema)

\* C5: a call of ValidateRequest leaves the request, the caches, the alias
\* cache and the last query as they were (no SQL is emitted, no state is
\* changed), and it returns an error if the column list is empty, the locale
\* is unknown, a selected column is not in the resolved schema or names a
\* path resolver, filter or order that is not registered, or a filter-group
\* path or an order path is not in the resolved schema; otherwise it returns
\* nil.
T_C5_ValidationErrors ==
    [][validateErr' # validateErr =>
           /\ UNCHANGED <<request, dbCaches, joinPathCache, lastQuery>>
           /\ (validateErr' = "") <=> ~Refused(request, OrganizationSchema)]_vars

\* a request with known columns is refused for the path of an order alone
W_C5_ValidationErrors ==
    /\ connPc = "ready"
    /\ validateErr = "unknown order column"
    /\ request.columns # <<>>
    /\ request.filters = <<>>
    /\ lastQuery = NoQuery

(***************************************************************************)
(* C2: the trailing order on the primary key                               *)
(***************************************************************************)

\* C2: when no order of the request is on the path of the primary key, the
\* ORDER BY of the emitted query ends with "entity.pk ASC", pk the first
\* primary-key column of the entity, whatever pk is called; when an order of
\* the request is on the primary key, the ORDER BY holds the orders of the
\* request and nothing more.
CE_C2_TrailingPrimaryKeyOrder ==
    (connPc = "fetched" /\ lastQuery.status = "ok") =>
        LET entity == OrganizationSchema.originalSchema.Entity
            pk == dbCaches.primaryKeyMap[entity][1]
            pkPaths == {entity \o US \o pk, entity \o US \o IdentifierToDescriptor(pk)}
            sorted == lastQuery.sortColumns
        IN  IF \E i \in DOMAIN request.orders : request.orders[i].path \in pkPaths
            THEN Len(sorted) = Len(request.orders)
            ELSE /\ Len(sorted) = Len(request.orders) + 1
                 /\ sorted[Len(sorted)] = entity \o <<".">> \o pk \o <<" ">> \o OrderAsc

(***************************************************************************)
(* C6: the joins a request plans                                           *)
(***************************************************************************)

\* the prefixes of 2 up to len-1 segments of the selected, ordered-by and
\* filtered paths of a request
JoinPrefixes(req) ==
    LET participating ==
            {req.columns[i].Path : i \in DOMAIN req.columns}
                \cup {req.orders[i].path : i \in DOMAIN req.orders}
                \cup {req.filters[i].path : i \in DOMAIN req.filters}
    IN  UNION {{Join(SubSeq(Split(q), 1, n)) : n \in 2..(Len(Split(q)) - 1)} :
               q \in participating}

\* the words of a text, the text cut at its spaces
Words(text) ==
    LET starts == SelectSeq([i \in 1..Len(text) |-> i],
                            LAMBDA i : /\ text[i] # " "
                                       /\ (i = 1 \/ text[i - 1] = " "))
        WordEnd(i) == CHOOSE j \in i..Len(text) :
                          /\ j = Len(text) \/ text[j + 1] = " "
                          /\ \A k \in i..j : text[k] # " "
    IN  [n \in DOMAIN starts |-> SubSeq(text, starts[n], WordEnd(starts[n]))]

\* the aliases of the joins of a join string, in the order of the text:
\* the word after AS of every "JOIN table AS alias"
JoinAliases(joinString) ==
    LET words == Words(joinString)
        starts == SelectSeq([i \in 1..Len(words) |-> i],
                            LAMBDA i : /\ i + 3 <= Len(words)
                                       /\ words[i] = <<"J", "O", "I", "N">>
                                       /\ words[i + 2] = <<"A", "S">>)
    IN  [n \in DOMAIN starts |-> words[starts[n] + 3]]

StrictlyAscending(strings) ==
    \A i, j \in DOMAIN strings : i < j => StrLess(strings[i], strings[j])

Str_organization_assigned_person ==
    DescriptorToIdentifier(Str_organization_assignedPerson)

Str_organization_assigned_person_supervisor ==
    DescriptorToIdentifier(Str_organization_assignedPerson_supervisor)

\* C6 as stated: the aliases of the emitted joins are those of the prefixes
\* of 2 up to len-1 segments of the participating paths, each once, in
\* lexicographic order.
CE_C6_AliasesLexicographic ==
    (connPc = "fetched" /\ lastQuery.status = "ok") =>
        LET aliases == JoinAliases(lastQuery.joinString)
        IN  /\ {aliases[i] : i \in DOMAIN aliases}
                   = {DescriptorToIdentifier(q) : q \in JoinPrefixes(request)}
            /\ StrictlyAscending(aliases)

\* C6: the planned join paths are exactly the prefixes of 2 up to len-1
\* segments of the participating paths with at least 3 segments, each once,
\* in ascending byte order of the prefixes as the schema writes them, so
\* that every prefix comes after its immediate parent prefix; the emitted
\* joins carry, in that order, the aliases DescriptorToIdentifier gives the
\* prefixes; the paths organization_assignedPerson_supervisor_name and
\* organization_name give organization_assigned_person and then
\* organization_assigned_person_supervisor.
T_C6_JoinPrefixesInPathOrder ==
    (connPc = "fetched") =>
        LET planned == calculatePathsForJoins(request.columns, request.orders,
                                              request.filters)
        IN  /\ {planned[i] : i \in DOMAIN planned} = JoinPrefixes(request)
            /\ StrictlyAscending(planned)
            /\ \A i \in DOMAIN planned :
                   LET parts == Split(planned[i])
                   IN  Len(parts) > 2 =>
                           \E j \in 1..(i - 1) :
                               planned[j] = Join(SubSeq(parts, 1, Len(parts) - 1))
            /\ \A q \in JoinPrefixes(request) : Len(Split(q)) >= 2
            /\ lastQuery.status = "ok" =>
                   JoinAliases(lastQuery.joinString)
                       = [i \in DOMAIN planned |-> DescriptorToIdentifier(planned[i])]
            /\ (/\ lastQuery.status = "ok"
                /\ request.columns
                       = <<Selected(Str_organization_assignedPerson_supervisor_name),
                           Selected(Str_organization_name)>>) =>
                   JoinAliases(lastQuery.joinString)
                       = <<Str_organization_assigned_person,
                           Str_organization_assigned_person_supervisor>>

\* a query whose joins follow the order of the prefixes organization_assigned,
\* organization_assignedPerson, organization_assigned_deputy
W_C6_JoinPrefixesInPathOrder ==
    /\ connPc = "fetched"
    /\ lastQuery.status = "ok"
    /\ JoinAliases(lastQuery.joinString)
           = <<W_organization \o US \o W_assigned,
               Str_organization_assigned_person,
               W_organization \o US \o W_assigned \o US \o W_deputy>>

(***************************************************************************)
(* C7: the text of the query for one request                               *)
(***************************************************************************)

\* C7: two runs of fetchData on the same schema, caches, columns, filter
\* groups, orders and locale emit the same text: a fetch that follows a
\* fetch of the same request emits the query the first one emitted.
CE_C7_StableText ==
    [][(/\ lastQuery.status = "ok"
        /\ lastQuery'.status = "ok"
        /\ request' = request
        /\ dbCaches' = dbCaches) =>
           QueryString(lastQuery') = QueryString(lastQuery)]_vars

(***************************************************************************)
(* C11: the paths of a resolved schema start with its entity               *)
(***************************************************************************)

\* the first path segment of every column a loaded schema declares is the
\* entity of that schema
DeclaredUnderEntity ==
    \A table \in DOMAIN schemas :
        \A i \in DOMAIN schemas[table].Columns :
            Split(schemas[table].Columns[i].Path)[1] = schemas[table].Entity

\* C11: when every declared column's first path segment is the entity of the
\* schema that declares it, the path of every column in the flat list of a
\* resolved schema is the schema's entity or begins with the entity followed
\* by "_", with or without extensions and exclusions.
CE_C11_PathsUnderEntity ==
    DeclaredUnderEntity =>
        \A table \in DOMAIN resolvedSchemas :
            LET entity == resolvedSchemas[table].originalSchema.Entity
                columns == resolvedSchemas[table].columns
            IN  \A i \in DOMAIN columns :
                    \/ columns[i].Path = entity
                    \/ HasPrefix(columns[i].Path, entity \o US)

(***************************************************************************)
(* C12: the paths of a resolved schema are pairwise different              *)
(***************************************************************************)

\* C12: no two columns in the flat list of a resolved schema have the same
\* path, the map from path to column has one entry per listed column, and
\* Column(path) gives the listed column of that path.
CE_C12_PathsUnique ==
    \A table \in DOMAIN resolvedSchemas :
        LET resolved == resolvedSchemas[table]
            columns == resolved.columns
        IN  /\ \A i, j \in DOMAIN columns :
                   columns[i].Path = columns[j].Path => i = j
            /\ Cardinality(DOMAIN resolved.columnsMap) = Len(columns)
            /\ \A i \in DOMAIN columns :
                   SchemaColumn(resolved, columns[i].Path)
                       = [column |-> columns[i], err |-> ""]

(***************************************************************************)
(* C13: the column types ValidateIntegrity accepts                         *)
(***************************************************************************)

\* a primitive, compared without regard to case, or an enum of the mapper
TypeKnown(type, enums) ==
    \/ \E primitive \in {T_boolean, T_integer, T_long, T_string, T_date, T_datetime} :
           ToLower(type) = ToLower(primitive)
    \/ type \in enums

\* C13: ValidateIntegrity, run by NewConnector, returns an
\* UnknownColumnTypeError that names the schema, the column and the type of
\* a declared column whose type is neither a primitive (in any case) nor an
\* enum of the EnumMapper exactly when some loaded schema declares such a
\* column, and nil otherwise; when it returns nil every column of every
\* resolved schema has a type that is a primitive or a known enum.
CE_C13_ColumnTypesKnown ==
    integrity.run =>
        LET unknownColumns ==
                {UnknownColumnTypeError(schemas[table].Entity,
                                        schemas[table].Columns[i].Path,
                                        schemas[table].Columns[i].Type) :
                    <<table, i>> \in
                        {ti \in (DOMAIN schemas) \X (1..MaxColumns + 1) :
                            /\ ti[2] \in DOMAIN schemas[ti[1]].Columns
                            /\ ~TypeKnown(schemas[ti[1]].Columns[ti[2]].Type,
                                          integrity.enums)}}
        IN  /\ (integrity.err = Nil) <=> (unknownColumns = {})
            /\ integrity.err # Nil => integrity.err \in unknownColumns
            /\ integrity.err = Nil =>
                   \A table \in DOMAIN resolvedSchemas :
                       \A i \in DOMAIN resolvedSchemas[table].columns :
                           TypeKnown(resolvedSchemas[table].columns[i].Type,
                                     integrity.enums)

(***************************************************************************)
(* C14: an extension to a table that no schema file defines                *)
(***************************************************************************)

\* the tables the extensions of the loaded schemas name without a schema
\* file of that name
MissingTables ==
    {schemas[table].Extensions[e].Table :
        <<table, e>> \in
            {te \in (DOMAIN schemas) \X (1..MaxExtensions + 1) :
                te[2] \in DOMAIN schemas[te[1]].Extensions}}
        \ DOMAIN schemas

\* C14: when an extension of a loaded schema, at any depth below any schema,
\* names a table that is not a key of the schema map, no schema mapper is
\* returned: the map of resolved schemas is never completed, and the error
\* names such a table while no resolved schema is kept and no connector is
\* built on the folder; the folder of the test fails on
\* subfolder/abstract_entity.  Without such an extension there is no error.
T_C14_UnresolvableSchema ==
    /\ MissingTables # {} =>
           ~(mapperErr = "" /\ DOMAIN resolvedSchemas = DOMAIN schemas)
    /\ mapperErr # "" =>
           /\ mapperErr \in MissingTables
           /\ resolvedSchemas = <<>>
           /\ ~integrity.run
    /\ (mapperErr # "" /\ DOMAIN schemas = {"companies"}) =>
           mapperErr = "subfolder/abstract_entity"
    /\ MissingTables = {} => mapperErr = ""

\* the folder whose organization reaches the missing table through persons
\* has failed on that table
W_C14_UnresolvableSchema ==
    /\ DOMAIN schemas = {"organization", "persons"}
    /\ mapperErr = "addresses"
    /\ resolvedSchemas = <<>>

(***************************************************************************)
(* C15: the empty strategy key                                             *)
(***************************************************************************)

\* every strategy key of every selected column is empty or registered
StrategiesEmptyOrRegistered(columns) ==
    \A i \in DOMAIN columns :
        /\ columns[i].PathResolver \in Resolvers \cup {""}
        /\ columns[i].Filter \in Filters \cup {""}
        /\ columns[i].Order \in Sorters \cup {""}

\* C15: a selected column whose filter, order or pathResolver key is the
\* empty string names the default strategy of that kind: ValidateRequest
\* does not refuse a request for an unregistered strategy when every key of
\* its columns is empty or registered, and a fetch of such a request does
\* not break for want of a strategy.
CE_C15_EmptyKeyIsDefault ==
    (connPc # "idle" /\ StrategiesEmptyOrRegistered(request.columns)) =>
        /\ validateErr \notin {"unknown path resolver", "unknown filter", "unknown order"}
        /\ lastQuery.status # "panic"

(***************************************************************************)
(* C16                                                                     *)
(***************************************************************************)

\* the placeholder of a key
Placeholder(key) == <<"?", "?">> \o key \o <<"?", "?">>

\* C16: LanguageCatalog.Translate returns the stored text and no error for
\* every key present in the catalog, the placeholder ??key?? and
\* ErrUnknownTranslation for a missing key; ordering an enum column whose
\* translations are missing logs them and still returns an order, without
\* an error.
CE_C16_TranslateStoredText ==
    /\ i18nPc \in {"translated", "ordered"} =>
           IF sortRequest.key \in DOMAIN languages["de"]
           THEN translation = [text |-> languages["de"][sortRequest.key], err |-> ""]
           ELSE translation = [text |-> Placeholder(sortRequest.key),
                               err |-> "unknown translation key"]
    /\ (i18nPc = "ordered" /\ sortRequest.column.Type \in DOMAIN TestEnums) =>
           /\ resolvedOrder.err = ""
           /\ resolvedOrder.order.Path # <<>>

(***************************************************************************)
(* C19                                                                     *)
(***************************************************************************)

\* the keys as OrderColumn compares them
CallKeys == SanitizedKeys(orderCall.order.sortKeys)

KeysAscending == \A i \in 1..(Len(CallKeys) - 1) : ~StrLess(CallKeys[i + 1], CallKeys[i])

KeysDescending == \A i \in 1..(Len(CallKeys) - 1) : ~StrLess(CallKeys[i], CallKeys[i + 1])

KeysConvertible ==
    /\ orderCall.order.sortKeys # <<>>
    /\ \A i \in DOMAIN orderCall.order.sortKeys :
           orderCall.order.sortKeys[i].t \in {"string", "int64", "uint64"}

\* C19: for an order whose sort keys are all strings, int64 or uint64,
\* OrderColumn returns: path and the direction when the keys are ascending,
\* path and the reversed direction when they are descending, and the CASE
\* form over the keys otherwise.
CE_C19_SortKeyOrders ==
    (orderText # NotCalled /\ KeysConvertible) =>
        /\ ~orderText.panic
        /\ orderText.text =
               IF KeysAscending
               THEN CommonQueryBuilder_OrderColumn(orderCall.path, orderCall.order.direction)
               ELSE IF KeysDescending
               THEN CommonQueryBuilder_OrderColumn(orderCall.path,
                                                   Reverse(orderCall.order.direction))
               ELSE OrderColumnByArray(orderCall.path, orderCall.order.sortKeys,
                                       orderCall.order.direction)

(***************************************************************************)
(* C17                                                                     *)
(***************************************************************************)

\* deferred loading was advised for the call
Deferred ==
    adviseDeferredLoading(fetchCall.request.columns, fetchCall.request.orders,
                          OrganizationSchema)

\* the call has returned, deferred, its primary-key query having given no
\* rows and the count queries having been answered
ReturnedWithoutKeys ==
    /\ Deferred
    /\ taskPc["data"] = "returned"
    /\ fetchCall.database.keys = <<>>
    /\ ~fetchCall.database.countError

\* C17: with deferred loading and a primary-key query that gives no rows,
\* FetchData returns an empty result, does not run the full-columns query,
\* returns the total count as its second value (totalCount) and no error.
CE_C17_ShortCircuitTotalCount ==
    ReturnedWithoutKeys =>
        /\ fetched.result = Result(<<>>)
        /\ dataFetch = NoDataFetch
        /\ fetched.totalCount = fetchCall.database.total
        /\ fetched.err = ""

(***************************************************************************)
(* C18                                                                     *)
(***************************************************************************)

\* the keys of the first query, as FetchData scans them
FirstQueryKeys ==
    [i \in DOMAIN fetchCall.database.keys |-> StringValue(fetchCall.database.keys[i])]

\* the full-columns fetchData of a deferred call has been run
SecondQueryRun == dataFetch.deferred /\ dataFetch.outcome.status # "none"

\* C18: with deferred loading and keys k0..kn from the first query, the
\* second query selects the requested columns with the one filter group
\* pkPath EQUALS k0..kn, the one order on pkPath, ascending, with sort keys
\* k0..kn, and limit 0; it completes and gives its rows in the order of the
\* keys, whether the keys are sorted or not.
CE_C18_SecondQueryInKeyOrder ==
    SecondQueryRun =>
        /\ dataFetch.filters =
               <<NewSimpleFilterGroup(PrimaryKeyPath, FilterEquals, FirstQueryKeys)>>
        /\ dataFetch.orders = <<NewOrder(PrimaryKeyPath, OrderAsc, FirstQueryKeys)>>
        /\ dataFetch.limit = 0
        /\ dataFetch.outcome.status = "ok"
        /\ Len(dataFetch.outcome.selectColumns) = Len(fetchCall.request.columns)
        /\ dataFetch.rows = fetchCall.database.keys

(***************************************************************************)
(* C20                                                                     *)
(***************************************************************************)

\* C20: no two tasks of a FetchData call (the data fetch, the total count,
\* the filtered count) are reading or writing the join-alias cache of the
\* planner at the same time.
CE_C20_CacheAccessExclusive == Cardinality(resolving) <= 1

(***************************************************************************)
(* C21                                                                     *)
(***************************************************************************)

\* C21: every join ResolvePath has returned is in the alias cache under its
\* alias, and resolving the planned paths in their sorted order never ends
\* in the abort "Unable to figure out table", whatever the tables are
\* called.
CE_C21_EmittedJoinsCached ==
    /\ \A i \in DOMAIN emitted :
           /\ emitted[i].joinAlias \in DOMAIN aliasCache
           /\ aliasCache[emitted[i].joinAlias] = emitted[i]
    /\ joinPc # Fatal

(***************************************************************************)
(* C22                                                                     *)
(***************************************************************************)

\* a count query of the call has failed: the database answered it with an
\* error, and the goroutine has run to its end
CountFailed ==
    /\ fetchCall.database.countError
    /\ \E t \in {"total", "filtered"} : taskPc[t] = "sent"

\* C22: when a count query fails, FetchData returns an error; it does not
\* return a count with a nil error.
CE_C22_CountFailureReturned ==
    (fetched.returned /\ CountFailed) => fetched.err # ""

(***************************************************************************)
(* C23                                                                     *)
(***************************************************************************)

\* the count goroutines the call has started have sent their counts
CountsDelivered ==
    \A t \in {"total", "filtered"} : taskPc[t] \in {"none", "sent"}

\* C23: FetchData returns only after the total count and, with filters, the
\* filtered count have been delivered, on every return path: the rows, the
\* empty result of deferred loading, and the error of the primary-key or the
\* data query.
CE_C23_ReturnsAfterCounts == fetched.returned => CountsDelivered

(***************************************************************************)
(* C24                                                                     *)
(***************************************************************************)

\* the SQL comparison operator of a filter mode
SqlComparison(filterMode) ==
    CASE filterMode = FilterEquals -> <<"=">>
      [] filterMode = FilterNotEquals -> <<"!", "=">>
      [] filterMode = FilterGreater -> <<">">>
      [] filterMode = FilterGreaterEquals -> <<">", "=">>
      [] filterMode = FilterLesser -> <<"<">>
      [] filterMode = FilterLesserEquals -> <<"<", "=">>

\* the text of the g-th AND-joined part of a predicate
GroupText(items, g) == RenderItems(SplitItems(items, "AND", <<>>)[g])

\* C24: under the default filter strategy a filter of mode EQUALS,
\* NOT_EQUALS, GREATER, GREATER_EQUALS, LESSER or LESSER_EQUALS compiles to
\* "path op literal" with op the SQL comparison operator of the mode
\* (=, !=, >, >=, <, <=).
CE_C24_SqlOperators ==
    (filterPc = "done" /\ whereResult.err = "") =>
        \A g \in DOMAIN filterGroups :
            Len(filterGroups[g]) = 1 =>
                GroupText(whereResult.items, g)
                    = Str_company_company_key \o SP
                        \o SqlComparison(filterGroups[g][1].mode) \o SP
                        \o FormatInt(filterGroups[g][1].value.n)

(***************************************************************************)
(* C25                                                                     *)
(***************************************************************************)

\* company.name
Path_company_name == W_company \o <<".">> \o W_name

\* the SQL pattern literal of a filter value
LikeLiteral(s) ==
    CASE s = V_aStar -> <<"'", "a", "%", "'">>
      [] s = V_starB -> <<"'", "%", "b", "'">>
      [] s = V_c -> <<"'", "c", "'">>

\* the group's filters all fall into the bucket of one operator
OneBucket(group, operator) ==
    /\ Len(group) >= 2
    /\ BucketKeys("RegexString", group) = {operator}

\* "path op l1 OR path op l2 OR ..." over the group's values in filter order
OrChain(path, operator, group) ==
    JoinWith([i \in DOMAIN group |->
                 path \o SP \o operator \o SP \o LikeLiteral(group[i].value.s)],
             <<" ", "O", "R", " ">>)

\* C25: a bucket of two or more values under an order comparison, LIKE or
\* NOT LIKE compiles without error to the comparisons "path op literal"
\* joined by OR; with the RegexString filter EQUALS / NOT_EQUALS on a value
\* containing ".*" select LIKE / NOT LIKE, the literal's ".*" replaced by "%".
CE_C25_OrChainedBuckets ==
    filterPc = "done" =>
        \A g \in DOMAIN filterGroups :
            \A operator \in {OperatorGreater, OperatorLike, OperatorNotLike} :
                OneBucket(filterGroups[g], operator) =>
                    /\ whereResult.err = ""
                    /\ GroupText(whereResult.items, g)
                          = OrChain(Path_company_name, operator, filterGroups[g])

(***************************************************************************)
(* C26                                                                     *)
(***************************************************************************)

\* the translations of the enum's entries under the request locale, the
\* entries taken in the order of their enum keys
TextsInKeyOrder ==
    LET entries == entriesSortedByKey(TestEnums[sortRequest.column.Type])
    IN  [i \in DOMAIN entries |->
            SortText(languages, sortRequest.locale, entries[i],
                     TranslationSuffix(sortRequest.column.Order))]

\* the lists of the enum's keys that are in the order of their translations
KeysInTranslationOrder ==
    LET enum == TestEnums[sortRequest.column.Type]
        Text(key) == SortText(languages, sortRequest.locale,
                              [EnumKey |-> key, TranslationKey |-> enum[key]],
                              TranslationSuffix(sortRequest.column.Order))
    IN  {keys \in IterationOrders(DOMAIN enum) :
            \A i \in 1..(Len(keys) - 1) : ~StrLess(Text(keys[i + 1]), Text(keys[i]))}

Str_company_country_path == W_company \o <<".">> \o T_country

DirectText(direction) == Str_company_country_path \o SP \o direction

\* the orders of an enum column that the sorter answered
EnumOrdered ==
    /\ i18nPc = "ordered"
    /\ resolvedOrder.err = ""

\* C26: an enum column whose entries in translation order are in enum key
\* order is ordered by "path direction"; one whose entries in translation
\* order are in the reverse of enum key order by "path" and the reversed
\* direction; any other by the CASE form over the enum keys in translation
\* order.  (Entries of the same translation may stand in either order.)
T_C26_EnumOrderForms ==
    EnumOrdered =>
        LET texts == TextsInKeyOrder
            emittedOrder == OrderColumnOfSorter(resolvedOrder.order)
            same == \A i \in 1..(Len(texts) - 1) : ~StrLess(texts[i + 1], texts[i])
            strictlySame == \A i \in 1..(Len(texts) - 1) : StrLess(texts[i], texts[i + 1])
            reversed == \A i \in 1..(Len(texts) - 1) : ~StrLess(texts[i], texts[i + 1])
            strictlyReversed ==
                \A i \in 1..(Len(texts) - 1) : StrLess(texts[i + 1], texts[i])
            direct == DirectText(sortRequest.direction)
            directReversed == DirectText(Reverse(sortRequest.direction))
            cased == {OrderColumnByArray(Str_company_country_path,
                                         [i \in DOMAIN keys |-> StringValue(keys[i])],
                                         sortRequest.direction) :
                          keys \in KeysInTranslationOrder}
        IN  /\ strictlySame => emittedOrder = direct
            /\ strictlyReversed => emittedOrder = directReversed
            /\ (~same /\ ~reversed) => emittedOrder \in cased
            /\ \/ same /\ emittedOrder = direct
               \/ reversed /\ emittedOrder = directReversed
               \/ emittedOrder \in cased

\* an ASC order on an enum whose translations AT -> C, DE -> B, US -> A are in
\* the reverse of enum key order was emitted as "company.country DESC"
W_C26_EnumOrderForms ==
    /\ EnumOrdered
    /\ sortRequest.column.Order = "EnumOrder"
    /\ sortRequest.locale = "de"
    /\ sortRequest.direction = OrderAsc
    /\ languages["de"] = (Key_country_at :> <<"C">>) @@ (Key_country_de :> <<"B">>)
                            @@ (Key_country_us :> <<"A">>)
    /\ OrderColumnOfSorter(resolvedOrder.order)
          = Str_company_country_path \o <<" ", "D", "E", "S", "C">>

(***************************************************************************)
(* C27                                                                     *)
(***************************************************************************)

\* the schema has a column of the order's path
OrderResolves(order) == SchemaColumn(OrganizationSchema, order.path).err = ""

\* the order has a path of more than two segments or is on a column whose
\* path resolver is the Size resolver
OrderCrossesJoin(order) ==
    \/ Len(Split(order.path)) > 2
    \/ /\ OrderResolves(order)
       /\ SchemaColumn(OrganizationSchema, order.path).column.PathResolver
              = "SizePathResolver"

\* FetchData has chosen between the two ways of loading and run no query yet
LoadingChosen ==
    /\ taskPc["data"] \in {"keys", "fetch"}
    /\ keyFetch = NoKeyFetch

\* C27: deferred loading is used exactly when some order of the request has
\* a path of more than 2 segments or is on a Size-resolver column, whatever
\* its position in the order list and whatever the other orders are.
CE_C27_DeferredForAnyOrder ==
    LoadingChosen =>
        (taskPc["data"] = "keys"
            <=> \E i \in DOMAIN fetchCall.request.orders :
                    OrderCrossesJoin(fetchCall.request.orders[i]))

(***************************************************************************)
(* C28                                                                     *)
(***************************************************************************)

\* the table qualifier of "qualifier.column ...": the text before the first
\* "." of the first word, or nothing if the word holds no "."
Qualifier(text) ==
    LET word == Words(text)[1]
    IN  IF \E i \in DOMAIN word : word[i] = "."
        THEN SubSeq(word, 1,
                    (CHOOSE i \in DOMAIN word :
                        word[i] = "." /\ \A j \in 1..(i - 1) : word[j] # ".") - 1)
        ELSE <<>>

\* the table qualifiers of the SELECT list, the WHERE predicate and the
\* ORDER BY of a query
QueryQualifiers(q) ==
    ({Qualifier(q.selectColumns[i]) : i \in DOMAIN q.selectColumns}
        \cup {Qualifier(q.where[i].path) :
                 i \in {k \in DOMAIN q.where : q.where[k].kind \in {"cmp", "in", "notin"}}}
        \cup {Qualifier(q.sortColumns[i]) : i \in DOMAIN q.sortColumns})
    \ {<<>>}

\* the FROM entity of a query and the aliases of its joins and count joins:
\* the word after every AS of the join string but the count column's
QueryTables(q) ==
    LET words == Words(q.joinString)
    IN  {q.entity}
            \cup ({words[i + 1] : i \in {k \in 1..(Len(words) - 1) : words[k] = <<"A", "S">>}}
                    \ {<<"c", "o", "u", "n", "t", "_", "r", "e", "s", "u", "l", "t">>})

\* C28: every table qualifier in the SELECT list, the WHERE predicate and the
\* ORDER BY of an emitted query, the appended order on the primary key
\* included, is the FROM entity or the alias of a join or count join of the
\* same query.
CE_C28_QualifiersJoined ==
    (connPc = "fetched" /\ lastQuery.status = "ok") =>
        QueryQualifiers(lastQuery) \subseteq QueryTables(lastQuery)

(***************************************************************************)
(* C29                                                                     *)
(***************************************************************************)

\* the column fetchData orders by for an order: that of the schema, or a
\* column of the order's path alone
OrderedColumn(order) ==
    IF SchemaColumn(OrganizationSchema, order.path).err = ""
    THEN SchemaColumn(OrganizationSchema, order.path).column
    ELSE [ZeroColumn EXCEPT !.Path = order.path]

\* FetchData looks up a path resolver, filter or sorter for the request that
\* is not registered
NilStrategy(req) ==
    \/ \E i \in DOMAIN req.columns : req.columns[i].PathResolver \notin Resolvers
    \/ \E i \in DOMAIN req.filters :
           LET found == SchemaColumn(OrganizationSchema, req.filters[i].path)
           IN  /\ found.err = ""
               /\ \/ found.column.Filter \notin Filters
                  \/ found.column.PathResolver \notin Resolvers
    \/ \E i \in DOMAIN req.orders :
           \/ OrderedColumn(req.orders[i]).PathResolver \notin Resolvers
           \/ /\ req.orders[i].sortKeys = <<>>
              /\ OrderedColumn(req.orders[i]).Order \notin Sorters

\* C29: a request for which ValidateRequest returned nil does not make
\* FetchData abort on a path resolver, filter or sorter that is not
\* registered, also where it filters on or orders by columns it does not
\* select.
CE_C29_ValidatedStrategiesRegistered ==
    (connPc = "fetched" /\ validateErr = "") =>
        ~(lastQuery.status = "panic" /\ NilStrategy(request))

(***************************************************************************)
(* C30                                                                     *)
(***************************************************************************)

\* the limit alone, if there is one
LimitAlone(limit) == IF limit > 0 THEN <<limit>> ELSE <<>>

====
